---- MODULE Spec2Model ----
(***************************************************************************)
(* Job store and executor of the dashboard (src/app.py): the in-memory     *)
(* JOBS mirror and the thread pool of each worker process, the SQLite jobs *)
(* table they share, the start/stop/job routes, and a process restart.     *)
(***************************************************************************)
EXTENDS Integers, Sequences, FiniteSets, TLC

\* ---------------------------------------------------------------- bounds
\* job identifiers drawn in all, per specification
MaxJobs == 1
FleetJobs == 2
PoolJobs == 5
RouteJobs == 2
ModuleJobs == 3
MirrorJobs == 2
MissingJobs == 2
\* lines of a metrics text
MaxLines == 3
\* requests sent to the monitor endpoint in all
MaxFetches == 3
\* largest reading of the request threads' clock
MaxNow == 30
\* largest value of the clock
MaxTime == 1

\* ThreadPoolExecutor(max_workers=4)
max_workers == 4

\* the gunicorn worker processes that share jobs.db
Procs == {"w1", "w2"}
PoolProcs == {"w1"}

\* the request threads of one process that call fetch_kuma_metrics
Threads == {"t1", "t2"}

\* KUMA_CACHE_TTL = int(os.environ.get('KUMA_CACHE_TTL', '15'))
KUMA_CACHE_TTL == 15

\* ------------------------------------------------------- optional values
\* Python None / SQL NULL / an absent dict key, and a present value
Null == <<>>
Some(x) == <<x>>

VARIABLES
  db,       \* the jobs table: job id -> row
  JOBS,     \* per process: the JOBS dict, job id -> job dict
  queue,    \* per process: EXECUTOR's work queue of submitted _run closures
  tasks,    \* per process: the _run closures being executed by pool threads
  nextId,   \* number of identifiers uuid4 has produced so far, plus one
  clock,    \* time.time()
  log,      \* the logger.exception records of failed durable writes
  composes  \* per job id: how many times _run has called run_compose

vars == <<db, JOBS, queue, tasks, nextId, clock, log, composes>>

VARIABLES
  listing,              \* the last get_status call: its arguments, its world, its outcome
  metrics,              \* the last _parse_prom_metrics call: its text and its result
  UPTIME_KUMA_URL,      \* whether the monitor endpoint is configured
  _KUMA_METRICS_CACHE,  \* the cache dict: 'ts' and 'data'
  fetch,                \* per request thread: its fetch_kuma_metrics call
  now,                  \* time.time() as the request threads read it
  net,                  \* number of requests sent to the monitor endpoint so far
  history               \* which fetch wrote 'ts' and 'data', and the last fetch that succeeded

view_vars ==
  <<listing, metrics, UPTIME_KUMA_URL, _KUMA_METRICS_CACHE, fetch, now, net, history>>

VARIABLES
  lookup,   \* the last find_kuma_monitor_for_service call: its arguments and its result
  shell     \* the last docker_utils call: its world, the commands it ran, its result

call_vars == <<lookup, shell>>

all_vars == <<vars, view_vars, call_vars>>

\* ------------------------------------------------------- service registry
\* load_services(): the registry file in the documented format (name, url,
\* compose, icon), whose entries carry no 'id' key
load_services ==
  << [name |-> Some("wiki"), compose |-> "wiki/docker-compose.yml"] >>

\* dict.get(key) on a registry entry
get(svc, key) == IF key \in DOMAIN svc THEN svc[key] ELSE Null

\* compose_path_for(svc)
compose_path_for(svc) == svc.compose

\* the values data.get('name') can take: a missing name, a registered name,
\* an unregistered name
RequestNames == {Null, Some("wiki"), Some("ghost")}

\* next((s for s in services if s.get('name') == name or s.get('id') == name), None)
RECURSIVE find_service(_, _)
find_service(services, name) ==
  IF services = <<>> THEN Null
  ELSE IF get(Head(services), "name") = name \/ get(Head(services), "id") = name
       THEN Some(Head(services))
       ELSE find_service(Tail(services), name)

\* ------------------------------------------------------------ jobs table
\* the job dict built by submit_job
new_job(id, action, name) ==
  [id |-> id, action |-> action, name |-> name, status |-> "pending",
   result |-> Null, started_at |-> Null, finished_at |-> Null]

\* INSERT OR REPLACE INTO jobs ... : one committed transaction
db_save_job(table, job) == (job.id :> job) @@ table

\* UPDATE jobs SET <fields> WHERE id=? : one committed transaction; it
\* changes nothing when no row has the id
db_update_job(table, id, fields) ==
  IF id \in DOMAIN table THEN [table EXCEPT ![id] = fields @@ table[id]] ELSE table

\* (an initialisation that creates the table anew)
db_init_recreating(table) == <<>>

\* db_init(), run when the module is imported: CREATE TABLE IF NOT EXISTS
\* keeps the table and its rows
db_init(table) == table

\* (a status query answered from the serving process's own JOBS dict)
mirror_get_job(p, id) == IF id \in DOMAIN JOBS[p] THEN Some(JOBS[p][id]) ELSE Null

\* SELECT * FROM jobs WHERE id=? as served by process p
db_get_job(p, id) == IF id \in DOMAIN db THEN Some(db[id]) ELSE Null

\* (an identifier that repeats instead of a fresh one)
uuid4_repeated(n) == 1

\* uuid.uuid4().hex: the n-th identifier drawn is new
uuid4(n) == n

Terminal == {"done", "failed"}

\* --------------------------------------------------------------- Init
\* the job store of freshly imported processes
JobsInit ==
  /\ db = <<>>
  /\ JOBS = [p \in Procs |-> <<>>]
  /\ queue = [p \in Procs |-> <<>>]
  /\ tasks = [p \in Procs |-> <<>>]
  /\ nextId = 1
  /\ clock = 0
  /\ log = {}
  /\ composes = <<>>

\* no call of the pure functions made yet
CallsInit ==
  /\ listing = [called |-> FALSE]
  /\ metrics = [called |-> FALSE]
  /\ lookup = [called |-> FALSE]
  /\ shell = [called |-> FALSE]

\* _KUMA_METRICS_CACHE = {'ts': 0, 'data': {}}, no fetch under way; the
\* clock reads at least one TTL after the epoch
CacheInit ==
  /\ _KUMA_METRICS_CACHE = [ts |-> 0, data |-> <<>>]
  /\ fetch = [t \in Threads |-> [pc |-> "idle"]]
  /\ now = KUMA_CACHE_TTL
  /\ net = 0
  /\ history = [ts |-> 0, data |-> 0, last_ok |-> Null]

Init ==
  /\ JobsInit
  /\ CallsInit
  /\ CacheInit
  /\ UPTIME_KUMA_URL = TRUE

\* ------------------------------------------------------------ submit_job
\* submit_job called once per item, in order, by one request handler of
\* process p; saved[i] tells whether the i-th db_save_job committed or raised
RECURSIVE submit_jobs(_, _, _, _, _)
submit_jobs(st, action, items, saved, n) ==
  IF items = <<>> THEN st
  ELSE LET id == uuid4(n)
           job == new_job(id, action, Head(items).name)
           st1 == [jobs |-> (id :> job) @@ st.jobs,
                   db |-> IF Head(saved) THEN db_save_job(st.db, job) ELSE st.db,
                   log |-> IF Head(saved) THEN st.log ELSE st.log \cup {<<"save", id>>},
                   queue |-> Append(st.queue,
                                    [job_id |-> id, action |-> action,
                                     compose_path |-> Head(items).path]),
                   ids |-> Append(st.ids, id)]
       IN submit_jobs(st1, action, Tail(items), Tail(saved), n + 1)

\* the state after the handler's submit_job calls, and the ids they returned
Submitted(p, action, items, saved) ==
  submit_jobs([jobs |-> JOBS[p], db |-> db, log |-> log, queue |-> queue[p], ids |-> <<>>],
              action, items, saved, nextId)

DoSubmit(p, st, n) ==
  /\ JOBS' = [JOBS EXCEPT ![p] = st.jobs]
  /\ db' = st.db
  /\ log' = st.log
  /\ queue' = [queue EXCEPT ![p] = st.queue]
  /\ nextId' = nextId + n
  /\ UNCHANGED <<tasks, clock, composes, view_vars, call_vars>>

\* ------------------------------------------------------------- routes
\* (the CLI check made before the registry lookup)
start_stop_reply_cli_first(name, cli) ==
  IF ~cli THEN [code |-> 500, error |-> "docker CLI not found in container; cannot run compose", jobs |-> <<>>]
  ELSE IF find_service(load_services, name) = Null
  THEN [code |-> 404, error |-> "service not found", jobs |-> <<>>]
  ELSE [code |-> 200, error |-> "", jobs |-> <<uuid4(nextId)>>]

\* what api_start / api_stop answer to a request for `name` when
\* docker_cli_available() gives `cli`: 404, 500, or ok with the new job id
start_stop_reply(name, cli) ==
  LET svc == find_service(load_services, name) IN
  IF svc = Null THEN [code |-> 404, error |-> "service not found", jobs |-> <<>>]
  ELSE IF ~cli THEN [code |-> 500, error |-> "docker CLI not found in container; cannot run compose", jobs |-> <<>>]
  ELSE [code |-> 200, error |-> "", jobs |-> <<uuid4(nextId)>>]

\* api_start / api_stop: POST /api/start, /api/stop; a request that is not
\* answered ok changes nothing
start_stop(p, N, action, name, cli, saved) ==
  IF start_stop_reply(name, cli).code # 200
  THEN UNCHANGED all_vars
  ELSE /\ nextId <= N
       /\ LET svc == find_service(load_services, name)[1]
              st == Submitted(p, action, <<[name |-> name, path |-> compose_path_for(svc)]>>,
                              <<saved>>)
          IN DoSubmit(p, st, 1)

api_start(p, E) ==
  \E name \in E.names, cli \in BOOLEAN, saved \in E.writes :
    start_stop(p, E.jobs, "start", name, cli, saved)

api_stop(p, E) ==
  \E name \in E.names, cli \in BOOLEAN, saved \in E.writes :
    start_stop(p, E.jobs, "stop", name, cli, saved)

\* api_start_all / api_stop_all: one job per registry entry
all_items ==
  [i \in 1..Len(load_services) |->
     [name |-> get(load_services[i], "name"), path |-> compose_path_for(load_services[i])]]

start_stop_all_reply(cli) ==
  IF ~cli THEN [code |-> 500, error |-> "docker CLI not found in container; cannot run compose.", jobs |-> <<>>]
  ELSE [code |-> 200, error |-> "", jobs |-> [i \in 1..Len(all_items) |-> uuid4(nextId + i - 1)]]

start_stop_all(p, N, action, cli, saved) ==
  IF start_stop_all_reply(cli).code # 200
  THEN UNCHANGED all_vars
  ELSE /\ nextId + Len(all_items) - 1 <= N
       /\ DoSubmit(p, Submitted(p, action, all_items, saved), Len(all_items))

api_start_all(p, E) ==
  \E cli \in BOOLEAN, saved \in [1..Len(all_items) -> E.writes] :
    start_stop_all(p, E.jobs, "start", cli, saved)

api_stop_all(p, E) ==
  \E cli \in BOOLEAN, saved \in [1..Len(all_items) -> E.writes] :
    start_stop_all(p, E.jobs, "stop", cli, saved)

\* what api_job answers process p's client for job_id `id`; a read that
\* raises (readOk false) is logged and answered as not found
api_job_reply(p, id, readOk) ==
  LET job == IF readOk THEN db_get_job(p, id) ELSE Null IN
  IF job = Null THEN [code |-> 404, error |-> "job not found", job |-> Null]
  ELSE [code |-> 200, error |-> "", job |-> job]

\* api_job: GET /api/job/<job_id>; reads only
api_job(p, E) ==
  \E id \in 1..E.jobs, readOk \in BOOLEAN :
    /\ api_job_reply(p, id, readOk).code \in {200, 404}
    /\ UNCHANGED all_vars

\* ------------------------------------------------------------ run_compose
\* the ways the docker compose subprocess of run_compose can end: exit code
\* 0, another exit code, FileNotFoundError (no docker binary), any other
\* exception (the 180 s timeout)
Exits == {"exit0", "exit1", "nobinary", "timeout"}

\* (a run_compose that does not look for the compose file)
run_compose_unchecked(exists, action, how) ==
  CASE how = "exit0" -> [ok |-> TRUE, out |-> "output"]
    [] how = "exit1" -> [ok |-> FALSE, out |-> "output"]
    [] how = "nobinary" ->
         [ok |-> FALSE,
          out |-> "docker CLI not found in container; cannot run compose: [Errno 2] No such file or directory: 'docker'"]
    [] OTHER -> [ok |-> FALSE, out |-> "Command timed out after 180 seconds"]

\* run_compose(compose_path, action) = (ok, out), for a compose file that
\* exists or not and a subprocess that ends as `how`
run_compose(exists, action, how) ==
  IF ~exists THEN [ok |-> FALSE, out |-> "compose file not found"]
  ELSE CASE how = "exit0" -> [ok |-> TRUE, out |-> "output"]
         [] how = "exit1" -> [ok |-> FALSE, out |-> "output"]
         [] how = "nobinary" ->
              [ok |-> FALSE,
               out |-> "docker CLI not found in container; cannot run compose: [Errno 2] No such file or directory: 'docker'"]
         [] OTHER -> [ok |-> FALSE, out |-> "Command timed out after 180 seconds"]

\* ------------------------------------------------- the execution task _run
\* (a pool that never counts a thread as taken)
busy_uncounted(p) == 0

\* number of pool threads of p that are executing a task
busy(p) == Cardinality(DOMAIN tasks[p])

\* (a transition that is not applied to the mirror)
set_job_skipped(jobs, id, fields) == jobs

\* `if job_id in JOBS: JOBS[job_id][k] = v ...` under JOB_LOCK
set_job(jobs, id, fields) ==
  IF id \in DOMAIN jobs THEN [jobs EXCEPT ![id] = fields @@ jobs[id]] ELSE jobs

\* (a pool that holds a closure back while a task for the same compose
\* file is executing)
run_begin_one_per_service(p) ==
  /\ queue[p] # <<>>
  /\ busy(p) < max_workers
  /\ \A id \in DOMAIN tasks[p] : tasks[p][id].compose_path # Head(queue[p]).compose_path
  /\ LET c == Head(queue[p])
         t == [pc |-> "persist_start", action |-> c.action,
               compose_path |-> c.compose_path, start_ts |-> clock,
               final_status |-> "", out |-> "", finish_ts |-> 0]
     IN /\ queue' = [queue EXCEPT ![p] = Tail(queue[p])]
        /\ tasks' = [tasks EXCEPT ![p] = (c.job_id :> t) @@ tasks[p]]
        /\ JOBS' = [JOBS EXCEPT ![p] =
                      set_job(JOBS[p], c.job_id,
                              [status |-> "running", started_at |-> Some(clock)])]
  /\ UNCHANGED <<db, nextId, clock, log, composes, view_vars, call_vars>>

\* a free pool thread takes the oldest queued closure and runs _run up to
\* the first durable write: start_ts and the mirror's running transition
run_begin(p) ==
  /\ queue[p] # <<>>
  /\ busy(p) < max_workers
  /\ LET c == Head(queue[p])
         t == [pc |-> "persist_start", action |-> c.action,
               compose_path |-> c.compose_path, start_ts |-> clock,
               final_status |-> "", out |-> "", finish_ts |-> 0]
     IN /\ queue' = [queue EXCEPT ![p] = Tail(queue[p])]
        /\ tasks' = [tasks EXCEPT ![p] = (c.job_id :> t) @@ tasks[p]]
        /\ JOBS' = [JOBS EXCEPT ![p] =
                      set_job(JOBS[p], c.job_id,
                              [status |-> "running", started_at |-> Some(clock)])]
  /\ UNCHANGED <<db, nextId, clock, log, composes, view_vars, call_vars>>

\* db_update_job(job_id, status='running', started_at=start_ts) commits
\* (ok), or the exception it raised is logged
persist_start(p, id, ok) ==
  LET t == tasks[p][id] IN
  /\ t.pc = "persist_start"
  /\ IF ok
     THEN /\ db' = db_update_job(db, id, [status |-> "running",
                                          started_at |-> Some(t.start_ts)])
          /\ log' = log
     ELSE /\ db' = db
          /\ log' = log \cup {<<"start", id>>}
  /\ tasks' = [tasks EXCEPT ![p][id].pc = "compose"]
  /\ UNCHANGED <<JOBS, queue, nextId, clock, composes, view_vars, call_vars>>

run_persist_start(p, E) ==
  \E id \in DOMAIN tasks[p], ok \in E.writes : persist_start(p, id, ok)

\* (a failing run_compose that raises out of _run instead of returning:
\* the thread drops the task and the job is never marked)
finish_raising(p, id, r) ==
  /\ tasks[p][id].pc = "compose"
  /\ IF r.ok
     THEN /\ tasks' = [tasks EXCEPT ![p][id] =
                         [@ EXCEPT !.pc = "persist_final", !.final_status = "done",
                                   !.out = r.out, !.finish_ts = clock]]
          /\ JOBS' = [JOBS EXCEPT ![p] =
                        set_job(JOBS[p], id,
                                [status |-> "done", result |-> Some(r.out),
                                 finished_at |-> Some(clock)])]
     ELSE /\ tasks' = [tasks EXCEPT ![p] = [j \in DOMAIN tasks[p] \ {id} |-> tasks[p][j]]]
          /\ JOBS' = JOBS
  /\ composes' = (id :> (IF id \in DOMAIN composes THEN composes[id] + 1 ELSE 1)) @@ composes
  /\ UNCHANGED <<db, queue, nextId, clock, log, view_vars, call_vars>>

\* run_compose returns r; finish_ts, final_status and the mirror's terminal
\* transition
finish(p, id, r) ==
  LET t == tasks[p][id]
      final_status == IF r.ok THEN "done" ELSE "failed" IN
  /\ t.pc = "compose"
  /\ tasks' = [tasks EXCEPT ![p][id] =
                 [t EXCEPT !.pc = "persist_final", !.final_status = final_status,
                           !.out = r.out, !.finish_ts = clock]]
  /\ JOBS' = [JOBS EXCEPT ![p] =
                set_job(JOBS[p], id,
                        [status |-> final_status, result |-> Some(r.out),
                         finished_at |-> Some(clock)])]
  /\ composes' = (id :> (IF id \in DOMAIN composes THEN composes[id] + 1 ELSE 1)) @@ composes
  /\ UNCHANGED <<db, queue, nextId, clock, log, view_vars, call_vars>>

run_finish(p, E) ==
  \E id \in DOMAIN tasks[p], exists \in E.files, how \in E.exits :
    finish(p, id, run_compose(exists,
                              IF tasks[p][id].action = "start" THEN "up" ELSE "down", how))

\* db_update_job(job_id, status=final_status, result=out, finished_at=finish_ts)
\* commits (ok), or the exception it raised is logged; _run returns and the
\* thread is free
persist_final(p, id, ok) ==
  LET t == tasks[p][id] IN
  /\ t.pc = "persist_final"
  /\ IF ok
     THEN /\ db' = db_update_job(db, id, [status |-> t.final_status,
                                          result |-> Some(t.out),
                                          finished_at |-> Some(t.finish_ts)])
          /\ log' = log
     ELSE /\ db' = db
          /\ log' = log \cup {<<"result", id>>}
  /\ tasks' = [tasks EXCEPT ![p] = [j \in DOMAIN tasks[p] \ {id} |-> tasks[p][j]]]
  /\ UNCHANGED <<JOBS, queue, nextId, clock, composes, view_vars, call_vars>>

run_persist_final(p, E) ==
  \E id \in DOMAIN tasks[p], ok \in E.writes : persist_final(p, id, ok)

\* ------------------------------------------------------- jobs.submit_job
\* submit_job of src/jobs.py: the same job dict, mirror entry, INSERT and
\* EXECUTOR.submit as in src/app.py, for a caller that passes the action, the
\* service name and the compose path
jobs_submit_job(p, E) ==
  \E action \in {"start", "stop"}, name \in E.names, saved \in E.writes :
    /\ nextId <= E.jobs
    /\ DoSubmit(p, Submitted(p, action,
                             <<[name |-> name, path |-> compose_path_for(load_services[1])]>>,
                             <<saved>>), 1)

\* def run_compose(compose_path, action) of src/docker_utils.py, and the
\* arguments of the call run_compose(compose_path, 'up' or 'down', svc_name)
\* in _run of src/jobs.py
run_compose_parameters == <<"compose_path", "action">>
jobs_run_compose_arguments == <<"compose_path", "action", "svc_name">>

\* a call with more positional arguments than the function has parameters
\* raises TypeError before the function body runs
raises_TypeError(parameters, arguments) == Len(arguments) > Len(parameters)

\* what docker_utils.run_compose returns to _run when its chain ends as `how`
docker_utils_result(how) ==
  IF how = "exit0" THEN [ok |-> TRUE, out |-> "output"]
  ELSE [ok |-> FALSE, out |-> "All compose invocation attempts failed. Last output: "]

\* ok, out = run_compose(compose_path, ..., svc_name) in _run of src/jobs.py:
\* an exception of the call leaves _run, is kept in the task's Future, which
\* nobody reads, and the pool thread is free; otherwise _run goes on as in
\* src/app.py
jobs_run_compose(p, id, how) ==
  IF raises_TypeError(run_compose_parameters, jobs_run_compose_arguments)
  THEN /\ tasks[p][id].pc = "compose"
       /\ tasks' = [tasks EXCEPT ![p] = [j \in DOMAIN tasks[p] \ {id} |-> tasks[p][j]]]
       /\ UNCHANGED <<db, JOBS, queue, nextId, clock, log, composes, view_vars, call_vars>>
  ELSE finish(p, id, docker_utils_result(how))

\* the rest of _run of src/jobs.py from the call on: the call with the
\* statements that follow it, then the final UPDATE of the durable row
jobs_run_finish(p, E) ==
  \E id \in DOMAIN tasks[p], how \in E.exits, ok \in E.writes :
    IF tasks[p][id].pc = "persist_final"
    THEN persist_final(p, id, ok)
    ELSE jobs_run_compose(p, id, how)

\* _run of src/jobs.py
jobs_Run(p, E) ==
  \/ run_begin(p)
  \/ run_persist_start(p, E)
  \/ jobs_run_finish(p, E)

\* ------------------------------------------------------------ environment
\* (a restart that puts the table's unfinished jobs back on the pool)
Restart_resuming(p) ==
  LET open == {id \in DOMAIN db : db[id].status \notin Terminal}
      seq[S \in SUBSET open] ==
        IF S = {} THEN <<>>
        ELSE LET id == CHOOSE x \in S : \A y \in S : x <= y
             IN <<[job_id |-> id, action |-> db[id].action,
                   compose_path |-> compose_path_for(load_services[1])]>>
                \o seq[S \ {id}]
  IN /\ JOBS' = [JOBS EXCEPT ![p] = [id \in open |-> db[id]]]
     /\ queue' = [queue EXCEPT ![p] = seq[open]]
     /\ tasks' = [tasks EXCEPT ![p] = <<>>]
     /\ UNCHANGED <<db, nextId, clock, log, composes, view_vars, call_vars>>

\* process p is stopped and started again: the module is imported anew
\* (empty JOBS, a new EXECUTOR, db_init keeps the table), its threads are gone
Restart(p) ==
  /\ JOBS' = [JOBS EXCEPT ![p] = <<>>]
  /\ queue' = [queue EXCEPT ![p] = <<>>]
  /\ tasks' = [tasks EXCEPT ![p] = <<>>]
  /\ db' = db_init(db)
  /\ UNCHANGED <<nextId, clock, log, composes, view_vars, call_vars>>

\* time passes
Tick ==
  /\ clock < MaxTime
  /\ clock' = clock + 1
  /\ UNCHANGED <<db, JOBS, queue, tasks, nextId, log, composes, view_vars, call_vars>>

\* ------------------------------------------------------------- strings
\* A Python str is the sequence of its characters; '' is <<>>, which is
\* falsy like None.
Upper ==
  <<"A", "B", "C", "D", "E", "F", "G", "H", "I", "J", "K", "L", "M",
    "N", "O", "P", "Q", "R", "S", "T", "U", "V", "W", "X", "Y", "Z">>

Lower ==
  <<"a", "b", "c", "d", "e", "f", "g", "h", "i", "j", "k", "l", "m",
    "n", "o", "p", "q", "r", "s", "t", "u", "v", "w", "x", "y", "z">>

lower_char(c) ==
  IF \E i \in 1..Len(Upper) : Upper[i] = c
  THEN Lower[CHOOSE i \in 1..Len(Upper) : Upper[i] = c]
  ELSE c

\* (a comparison that keeps the case)
lower_kept(s) == s

\* str.lower()
lower(s) == [i \in 1..Len(s) |-> lower_char(s[i])]

\* tok in s
contains(s, tok) ==
  \E i \in 0..(Len(s) - Len(tok)) : SubSeq(s, i + 1, i + Len(tok)) = tok

\* index of the first character of s that is in chars, Len(s) + 1 if none
find_first(s, chars) ==
  IF \E i \in 1..Len(s) : s[i] \in chars
  THEN CHOOSE i \in 1..Len(s) : s[i] \in chars /\ \A j \in 1..(i - 1) : s[j] \notin chars
  ELSE Len(s) + 1

\* s.rstrip('/')
RECURSIVE rstrip_slash(_)
rstrip_slash(s) ==
  IF s # <<>> /\ s[Len(s)] = "/" THEN rstrip_slash(SubSeq(s, 1, Len(s) - 1)) ELSE s

\* s.split('/')[0]
split_slash_0(s) == SubSeq(s, 1, find_first(s, {"/"}) - 1)

\* urllib.parse.urlparse(u), as far as .scheme and .netloc: the scheme is the
\* lowercased run of scheme characters before the first ':', if it starts
\* with a letter; the netloc is what follows '//' up to the next '/', '?' or
\* '#', in the case it was written
SchemeChars ==
  {Upper[i] : i \in 1..Len(Upper)} \cup {Lower[i] : i \in 1..Len(Lower)}
    \cup {"0", "1", "2", "3", "4", "5", "6", "7", "8", "9", "+", "-", "."}

urlparse(u) ==
  LET colon == find_first(u, {":"})
      has_scheme == /\ colon <= Len(u)
                    /\ colon > 1
                    /\ lower_char(u[1]) # u[1] \/ \E i \in 1..Len(Lower) : Lower[i] = u[1]
                    /\ \A i \in 1..(colon - 1) : u[i] \in SchemeChars
      scheme == IF has_scheme THEN lower(SubSeq(u, 1, colon - 1)) ELSE <<>>
      rest == IF has_scheme THEN SubSeq(u, colon + 1, Len(u)) ELSE u
      has_netloc == Len(rest) >= 2 /\ SubSeq(rest, 1, 2) = <<"/", "/">>
      after == SubSeq(rest, 3, Len(rest))
      netloc == IF has_netloc
                THEN SubSeq(after, 1, find_first(after, {"/", "?", "#"}) - 1)
                ELSE <<>>
  IN [scheme |-> scheme, netloc |-> netloc]

\* ------------------------------------------- find_kuma_monitor_for_service
\* dict.get(key): Some(value) or Null
dict_get(d, key) == IF key \in DOMAIN d THEN Some(d[key]) ELSE Null

\* the 'url:' key find_kuma_monitor_for_service builds for a descriptor URL
service_url_key(s_url) ==
  LET p == urlparse(s_url)
      key_url == IF p.netloc # <<>>
                 THEN p.scheme \o <<":", "/", "/">> \o p.netloc
                 ELSE split_slash_0(s_url)
  IN <<"u", "r", "l", ":">> \o rstrip_slash(key_url)

service_name_key(s_name) == <<"n", "a", "m", "e", ":">> \o lower(s_name)

\* (a lookup that tries the name before the URL)
find_kuma_monitor_name_first(service, kuma) ==
  LET s_url == get(service, "url")
      s_name == get(service, "name")
      by_url == IF s_url # <<>> THEN dict_get(kuma, service_url_key(s_url)) ELSE Null
      by_name == IF s_name # <<>> THEN dict_get(kuma, service_name_key(s_name)) ELSE Null
  IN IF DOMAIN kuma = {} THEN Null
     ELSE IF by_name # Null THEN by_name
     ELSE by_url

\* Some(entry) of the snapshot kuma that belongs to the service, Null if none
find_kuma_monitor_for_service(service, kuma) ==
  LET s_url == get(service, "url")
      s_name == get(service, "name")
      by_url == IF s_url # <<>> THEN dict_get(kuma, service_url_key(s_url)) ELSE Null
      by_name == IF s_name # <<>> THEN dict_get(kuma, service_name_key(s_name)) ELSE Null
  IN IF DOMAIN kuma = {} THEN Null
     ELSE IF by_url # Null THEN by_url
     ELSE by_name

\* the monitor api_services looks up for a service before it writes
\* s['uptime']: kuma.get('url:' + s_url.rstrip('/')), then, if that gave
\* nothing, kuma.get('name:' + s_name.lower())
api_services_monitor(service, kuma) ==
  LET s_url == get(service, "url")
      s_name == get(service, "name")
      by_url == IF s_url # <<>>
                THEN dict_get(kuma, <<"u", "r", "l", ":">> \o rstrip_slash(s_url))
                ELSE Null
  IN IF by_url = Null /\ s_name # <<>>
     THEN dict_get(kuma, <<"n", "a", "m", "e", ":">> \o lower(s_name))
     ELSE by_url

\* ------------------------------------------------------ _parse_prom_metrics
\* A line of the metrics text is given by what metric_re and parse_labels
\* make of it: whether it matches, the metric name, the labels (a record of
\* strings) and the value.
Digits == <<"0", "1", "2", "3", "4", "5", "6", "7", "8", "9">>

\* f"{n}" for a natural number n
RECURSIVE str_int(_)
str_int(n) ==
  IF n < 10 THEN <<Digits[n + 1]>>
  ELSE str_int(n \div 10) \o <<Digits[(n % 10) + 1]>>

\* _norm_url(u): <<>> stands for None and for ''
_norm_url(u) ==
  IF u = <<>> THEN <<>>
  ELSE LET p == urlparse(u)
       IN IF p.netloc # <<>>
          THEN rstrip_slash(p.scheme \o <<":", "/", "/">> \o p.netloc)
          ELSE rstrip_slash(split_slash_0(u))

url_key(norm) == <<"u", "r", "l", ":">> \o norm
name_key(name) == <<"n", "a", "m", "e", ":">> \o lower(name)
id_key(mid) == <<"i", "d", ":">> \o mid

\* position of key in the insertion-ordered dict monitors, 0 if absent
index_of(monitors, key) ==
  IF \E i \in 1..Len(monitors) : monitors[i].key = key
  THEN CHOOSE i \in 1..Len(monitors) : monitors[i].key = key
  ELSE 0

\* the loop over text.splitlines(): monitors as the sequence of its
\* (key, entry) items in insertion order
RECURSIVE group_lines(_, _)
group_lines(monitors, lines) ==
  IF lines = <<>> THEN monitors
  ELSE
    LET line == Head(lines)
        name == get(line.labels, "monitor_name")
        url == get(line.labels, "monitor_url")
        norm_url == _norm_url(url)
        label_id == get(line.labels, "monitor_id")
        entry_id == IF label_id # <<>> THEN label_id ELSE str_int(Len(monitors))
        entry_key == IF norm_url # <<>> THEN url_key(norm_url)
                     ELSE IF name # <<>> THEN name_key(name)
                     ELSE id_key(entry_id)
        created == IF index_of(monitors, entry_key) = 0
                   THEN Append(monitors,
                               [key |-> entry_key,
                                entry |-> [name |-> name, url |-> url,
                                           norm_url |-> norm_url, monitor_id |-> entry_id]])
                   ELSE monitors
        i == index_of(created, entry_key)
        updated == IF line.metric = "monitor_status"
                   THEN [created EXCEPT ![i].entry =
                           ("status_code" :> line.value) @@ created[i].entry]
                   ELSE created
    IN IF ~line.matches THEN group_lines(monitors, Tail(lines))
       ELSE group_lines(updated, Tail(lines))

\* the second loop: every entry registered under its url:, name: and id: keys,
\* a later entry replacing an earlier one under the same key
RECURSIVE build_mapped(_, _)
build_mapped(mapped, monitors) ==
  IF monitors = <<>> THEN mapped
  ELSE
    LET entry == Head(monitors).entry
        m1 == IF entry.norm_url # <<>>
              THEN (url_key(entry.norm_url) :> entry) @@ mapped ELSE mapped
        m2 == IF entry.name # <<>>
              THEN (name_key(entry.name) :> entry) @@ m1 ELSE m1
        m3 == IF entry.monitor_id # <<>>
              THEN (id_key(entry.monitor_id) :> entry) @@ m2 ELSE m2
    IN build_mapped(m3, Tail(monitors))

_parse_prom_metrics(text) == build_mapped(<<>>, group_lines(<<>>, text))

\* -------------------------------------------------------------- get_status
\* ('up', 'running', 'healthy', 'started')
running_tokens ==
  {<<"u", "p">>,
   <<"r", "u", "n", "n", "i", "n", "g">>,
   <<"h", "e", "a", "l", "t", "h", "y">>,
   <<"s", "t", "a", "r", "t", "e", "d">>}

\* The monitor tier: Some(label) if the matched entry carries a status code
monitor_tier(service, kuma) ==
  LET mon == find_kuma_monitor_for_service(service, kuma)
  IN IF mon # Null /\ "status_code" \in DOMAIN mon[1]
     THEN Some(IF mon[1].status_code = 1 THEN "running" ELSE "stopped")
     ELSE Null

\* The HTTP probe: requests.get(url, timeout=3, ...)
probe_tier(http) ==
  IF http.kind = "neterror" THEN Some("unknown")
  ELSE IF http.code # 0 /\ http.code < 400 THEN Some("running")
  ELSE Some("stopped")

\* The try statement of get_status, entered once the compose file is known
\* to exist: the value returned (Null when the function falls off its end
\* and returns None) and the external calls made, in order
compose_ps(service, kuma, w) ==
  CASE w.cli.kind = "output" ->
         IF \E tok \in running_tokens : contains(lower(w.cli.out), tok)
         THEN [status |-> Some("running"), calls |-> <<"ps">>]
         ELSE [status |-> Null, calls |-> <<"ps">>]
    [] w.cli.kind = "absent" ->
         LET m == monitor_tier(service, kuma) IN
         IF m # Null THEN [status |-> m, calls |-> <<"ps", "monitor">>]
         ELSE IF get(service, "url") # <<>>
         THEN [status |-> probe_tier(w.http), calls |-> <<"ps", "monitor", "probe">>]
         ELSE [status |-> Null, calls |-> <<"ps", "monitor">>]
    [] OTHER -> [status |-> Some("unknown"), calls |-> <<"ps">>]

\* (the resolver without its check of the compose path)
get_status_unchecked(service, kuma, w) == compose_ps(service, kuma, w)

\* get_status(service, kuma) of src/app.py in the world w
get_status(service, kuma, w) ==
  IF ~w.exists THEN [status |-> Some("missing"), calls |-> <<>>]
  ELSE compose_ps(service, kuma, w)

\* ------------------------------------------------ inputs of the two calls
\* service descriptors: with a URL, with a URL no monitor watches, without
Descriptors ==
  {[name |-> <<"W", "i", "k", "i">>, url |-> <<"h", "t", "t", "p", ":", "/", "/", "w", ".", "i", "o", "/", "a", "p", "p">>, compose |-> "wiki/docker-compose.yml"],
   [name |-> <<"G", "i", "t">>, url |-> <<"h", "t", "t", "p", ":", "/", "/", "g", ".", "i", "o">>, compose |-> "git/docker-compose.yml"],
   [name |-> <<"B", "l", "o", "g">>, compose |-> "blog/docker-compose.yml"]}

\* the monitors of the metrics texts: two that share a name, one without a
\* URL whose monitor_id is "0", one with neither URL nor monitor_id, and one
\* whose URL differs from the first one's in its path only
Monitors ==
  [a |-> [monitor_name |-> <<"W", "i", "k", "i">>, monitor_url |-> <<"h", "t", "t", "p", ":", "/", "/", "w", ".", "i", "o">>, monitor_id |-> <<"1">>],
   b |-> [monitor_name |-> <<"W", "i", "k", "i">>, monitor_url |-> <<"h", "t", "t", "p", ":", "/", "/", "x", ".", "i", "o">>, monitor_id |-> <<"2">>],
   c |-> [monitor_name |-> <<"B", "l", "o", "g">>, monitor_id |-> <<"0">>],
   d |-> [monitor_name |-> <<"G", "i", "t">>],
   e |-> [monitor_name |-> <<"W", "a", "p", "p">>, monitor_url |-> <<"h", "t", "t", "p", ":", "/", "/", "w", ".", "i", "o", "/", "p">>, monitor_id |-> <<"3">>]]

metric_line(metric, labels, value) ==
  [matches |-> TRUE, metric |-> metric, labels |-> labels, value |-> value]

\* a line metric_re does not match, such as '# TYPE monitor_status gauge'
comment_line == [matches |-> FALSE, metric |-> "", labels |-> <<>>, value |-> 0]

LineSamples ==
  {metric_line("monitor_status", Monitors.a, 1),
   metric_line("monitor_status", Monitors.b, 0),
   metric_line("monitor_status", Monitors.c, 1),
   metric_line("monitor_status", Monitors.d, 0),
   metric_line("monitor_status", Monitors.e, 0),
   metric_line("monitor_response_time", Monitors.a, 12),
   comment_line}

\* the metrics texts of at most MaxLines lines
Texts == UNION {[1..n -> LineSamples] : n \in 0..MaxLines}

\* the monitor snapshots handed to get_status: no monitors, the descriptor's
\* monitor with each status code, without a status code, and a monitor
\* matched by name
KumaSnapshots ==
  {<<>>}
    \cup {_parse_prom_metrics(<<metric_line("monitor_status", Monitors.a, code)>>) :
            code \in 0..3}
    \cup {_parse_prom_metrics(<<metric_line("monitor_response_time", Monitors.a, 12)>>),
          _parse_prom_metrics(<<metric_line("monitor_status", Monitors.c, 0)>>)}

\* how `docker compose ps` ends: FileNotFoundError, another exception, the
\* 30 s timeout, or output
CliOutputs ==
  {<<>>,
   <<"a", "p", "p", " ", "U", "p", " ", "2", "h">>,
   <<"a", "p", "p", " ", "E", "x", "i", "t", " ", "1">>,
   <<"H", "E", "A", "L", "T", "H", "Y">>,
   <<"R", "e", "s", "t", "a", "r", "t", "i", "n", "g">>,
   <<"n", "o", " ", "s", "u", "c", "h", " ", "f", "i", "l", "e">>}

CliOutcomes ==
  {[kind |-> k, out |-> <<>>] : k \in {"absent", "error", "timeout"}}
    \cup {[kind |-> "output", out |-> o] : o \in CliOutputs}

\* how the probe of the service URL ends: a response, or a requests exception
HttpOutcomes ==
  {[kind |-> "response", code |-> c] : c \in {200, 302, 399, 400, 404, 500}}
    \cup {[kind |-> "neterror", code |-> 0]}

Worlds == [exists : BOOLEAN, cli : CliOutcomes, http : HttpOutcomes]

\* api_services: s['status'] = get_status(s, kuma) for one service
list_service ==
  \E service \in Descriptors, kuma \in KumaSnapshots, w \in Worlds :
    /\ ~listing.called
    /\ listing' = [called |-> TRUE, service |-> service, kuma |-> kuma, world |-> w,
                   result |-> get_status(service, kuma, w)]
    /\ UNCHANGED <<vars, call_vars, metrics, UPTIME_KUMA_URL, _KUMA_METRICS_CACHE, fetch, now, net, history>>

\* one call of _parse_prom_metrics
parse_text ==
  \E text \in Texts :
    /\ ~metrics.called
    /\ metrics' = [called |-> TRUE, text |-> text,
                   monitors |-> group_lines(<<>>, text),
                   mapped |-> _parse_prom_metrics(text)]
    /\ UNCHANGED <<vars, call_vars, listing, UPTIME_KUMA_URL, _KUMA_METRICS_CACHE, fetch, now, net, history>>

\* --------------------------------- calls of find_kuma_monitor_for_service
\* descriptors for the lookup: those of the listing, and three that name the
\* same host and port with a path and query, with a bare trailing slash, and
\* in lower case
LookupDescriptors ==
  Descriptors \cup
  {[name |-> <<"S", "h", "o", "p">>, url |-> <<"h", "t", "t", "p", "s", ":", "/", "/", "E", "x", "a", "m", "p", "l", "e", ".", "c", "o", "m", ":", "8", "0", "8", "0", "/", "p", "a", "t", "h", "?", "x", "=", "1">>, compose |-> "shop/docker-compose.yml"],
   [name |-> <<"S", "h", "o", "p">>, url |-> <<"h", "t", "t", "p", "s", ":", "/", "/", "E", "x", "a", "m", "p", "l", "e", ".", "c", "o", "m", ":", "8", "0", "8", "0", "/">>, compose |-> "shop/docker-compose.yml"],
   [name |-> <<"S", "h", "o", "p">>, url |-> <<"h", "t", "t", "p", "s", ":", "/", "/", "e", "x", "a", "m", "p", "l", "e", ".", "c", "o", "m", ":", "8", "0", "8", "0">>, compose |-> "shop/docker-compose.yml"]}

\* the monitors of the lookup snapshots: those above, one registered under
\* the mixed-case URL and one under the lower-case URL with another name
LookupMonitors ==
  {Monitors.a, Monitors.b, Monitors.c, Monitors.d, Monitors.e,
   [monitor_name |-> <<"S", "h", "o", "p">>, monitor_url |-> <<"h", "t", "t", "p", "s", ":", "/", "/", "E", "x", "a", "m", "p", "l", "e", ".", "c", "o", "m", ":", "8", "0", "8", "0", "/">>, monitor_id |-> <<"4">>],
   [monitor_name |-> <<"S", "t", "o", "r", "e">>, monitor_url |-> <<"h", "t", "t", "p", "s", ":", "/", "/", "e", "x", "a", "m", "p", "l", "e", ".", "c", "o", "m", ":", "8", "0", "8", "0">>, monitor_id |-> <<"5">>]}

\* snapshots parsed from at most two monitor_status lines
LookupSnapshots ==
  {_parse_prom_metrics(text) :
     text \in UNION {[1..n -> {metric_line("monitor_status", m, 1) : m \in LookupMonitors}] :
                       n \in 0..2}}

\* one service of one listing: the call of find_kuma_monitor_for_service
\* that get_status makes for it, and the monitor api_services matches to it
lookup_monitor ==
  \E service \in LookupDescriptors, kuma \in LookupSnapshots :
    /\ ~lookup.called
    /\ lookup' = [called |-> TRUE, service |-> service, kuma |-> kuma,
                  result |-> find_kuma_monitor_for_service(service, kuma),
                  attached |-> api_services_monitor(service, kuma)]
    /\ UNCHANGED <<vars, view_vars, shell>>

\* ------------------------------------------------- docker_utils.run_compose
\* One call of run_compose of src/docker_utils.py, one step per external
\* command. `shell` holds the call: the commands run so far (ran), the
\* variable out, the output of the command run last (last), the seconds
\* spent in commands that ran into their timeout (blocked), and the result.

\* compose_path.parent.name of the compose files: a directory name, or ''
\* for a file given without a directory
ParentNames == {"wiki", ""}

\* project_candidates: the parent directory name if any, 'docker',
\* 'services', None ("" stands for None)
project_candidates(project_name) ==
  (IF project_name # "" THEN <<project_name>> ELSE <<>>) \o <<"docker", "services", "">>

\* the command lines; the action words ('up -d' or 'down') follow the file
compose_cmd(bin, proj, flag) == [bin |-> bin, proj |-> proj, flag |-> flag]

\* the commands of the first loop: docker compose [-p proj] -f <file> ...
primary_cmds(cands) == [i \in 1..Len(cands) |-> compose_cmd("docker compose", cands[i], "-f")]

\* (alt_cmds with the legacy binary tried first)
alt_cmds_legacy_first(cands) ==
  <<compose_cmd("docker-compose", "", "-f")>>
    \o [i \in 1..Len(cands) |-> compose_cmd("docker compose", cands[i], "--file")]

\* alt_cmds: docker compose [-p proj] --file <file> ..., then docker-compose -f <file> ...
alt_cmds(cands) ==
  [i \in 1..Len(cands) |-> compose_cmd("docker compose", cands[i], "--file")]
    \o <<compose_cmd("docker-compose", "", "-f")>>

\* how subprocess.run of one command ends: exit code 0, another exit code,
\* FileNotFoundError, or another exception (TimeoutExpired after 180 s)
RunOutcomes == {"exit0", "exit1", "notfound", "timeout"}

\* seconds subprocess.run may take before TimeoutExpired in run_compose
ComposeTimeout == 180

\* the text the n-th command of the call leaves: its combined stdout+stderr,
\* or str(e) of the exception it raised
text_of(how, n) == <<how, n>>

\* seconds of the call spent so far in commands that ran into their timeout
blocked_after(how, limit) == shell.blocked + (IF how = "timeout" THEN limit ELSE 0)

\* msg = 'All compose invocation attempts failed. Last output: ' + (out or '')
failed_result(out) ==
  [ok |-> FALSE, out |-> <<"All compose invocation attempts failed. Last output: ", out>>]

\* if not compose_path.exists(): return False, 'compose file not found';
\* project_candidates; rc = None; out = ''
compose_begin_on(exists) ==
  \E action \in {"up", "down"}, parent \in ParentNames :
    /\ ~shell.called
    /\ shell' = [called |-> TRUE, fn |-> "run_compose", action |-> action,
                 parent |-> parent, cands |-> project_candidates(parent),
                 pc |-> IF exists THEN "primary" ELSE "done", i |-> 1,
                 ran |-> <<>>, out |-> <<"", 0>>, last |-> <<"", 0>>, blocked |-> 0,
                 cleanup |-> Null,
                 result |-> IF exists THEN Null
                            ELSE Some([ok |-> FALSE, out |-> <<"compose file not found", <<"", 0>>>>])]
    /\ UNCHANGED <<vars, view_vars, lookup>>

compose_begin == \E exists \in BOOLEAN : compose_begin_on(exists)

\* (a first loop that goes on to the next candidate after FileNotFoundError)
primary_next_continuing(how) ==
  IF shell.i < Len(shell.cands)
  THEN [pc |-> "primary", i |-> shell.i + 1]
  ELSE [pc |-> "alt", i |-> 1]

\* where the first loop goes after a command that did not exit with 0:
\* FileNotFoundError breaks out of the loop, anything else continues it
primary_next(how) ==
  IF how # "notfound" /\ shell.i < Len(shell.cands)
  THEN [pc |-> "primary", i |-> shell.i + 1]
  ELSE [pc |-> "alt", i |-> 1]

\* one pass of `for proj in project_candidates`
compose_primary ==
  \E how \in RunOutcomes :
    /\ shell.called /\ shell.fn = "run_compose" /\ shell.pc = "primary"
    /\ LET cmd == primary_cmds(shell.cands)[shell.i]
           n == Len(shell.ran) + 1
           text == text_of(how, n)
       IN shell' =
            IF how = "exit0"
            THEN [shell EXCEPT !.pc = "done", !.ran = Append(@, cmd), !.out = text,
                               !.last = text, !.result = Some([ok |-> TRUE, out |-> text])]
            ELSE [shell EXCEPT !.pc = primary_next(how).pc, !.i = primary_next(how).i,
                               !.ran = Append(@, cmd), !.out = text, !.last = text,
                               !.blocked = blocked_after(how, ComposeTimeout)]
    /\ UNCHANGED <<vars, view_vars, lookup>>

\* the variable out after a command of the second loop: that loop assigns
\* rc2 and out2 only
alt_out(text) == shell.out

\* (a cleanup that is tried for 'up' as well)
after_attempts_always(action) == "sdk"

\* where the call goes when no command exited with 0: if action == 'down',
\* the SDK fallback; else return False, msg
after_attempts(action) == IF action = "down" THEN "sdk" ELSE "done"

\* one pass of `for alt in alt_cmds`
compose_alt ==
  \E how \in RunOutcomes :
    /\ shell.called /\ shell.fn = "run_compose" /\ shell.pc = "alt"
    /\ LET cmds == alt_cmds(shell.cands)
           cmd == cmds[shell.i]
           n == Len(shell.ran) + 1
           text == text_of(how, n)
           out == alt_out(text)
       IN shell' =
            IF how = "exit0"
            THEN [shell EXCEPT !.pc = "done", !.ran = Append(@, cmd),
                               !.last = text, !.result = Some([ok |-> TRUE, out |-> text])]
            ELSE IF shell.i < Len(cmds)
            THEN [shell EXCEPT !.i = @ + 1, !.ran = Append(@, cmd), !.out = out, !.last = text,
                               !.blocked = blocked_after(how, ComposeTimeout)]
            ELSE [shell EXCEPT !.pc = after_attempts(shell.action),
                               !.ran = Append(@, cmd), !.out = out, !.last = text,
                               !.blocked = blocked_after(how, ComposeTimeout),
                               !.result = IF after_attempts(shell.action) = "done"
                                          THEN Some(failed_result(out)) ELSE Null]
    /\ UNCHANGED <<vars, view_vars, lookup>>

\* the containers client.containers.list(all=True) can return: name, the
\* value of the com.docker.compose.service label ("" if it has none), status
ContainerSamples ==
  {[name |-> "wiki_web_1", svc |-> "web", status |-> "running"],
   [name |-> "wiki_db_1", svc |-> "db", status |-> "exited"],
   [name |-> "shop_cache_1", svc |-> "cache", status |-> "running"],
   [name |-> "registry", svc |-> "", status |-> "running"]}

\* what reading the compose file gives: no yaml module; a file that does not
\* load, is not a mapping, or whose 'services' is not a mapping ("unparsed");
\* or a mapping, with the keys of its 'services' mapping (none if it has no
\* such key or the mapping is empty)
ComposeFiles ==
  {[kind |-> k, names |-> {}] : k \in {"noyaml", "unparsed"}}
    \cup {[kind |-> "parsed", names |-> ns] : ns \in {{}, {"web"}, {"web", "db"}}}

\* services = set(doc.get('services', {}).keys()), or set()
services_of(file) == IF file.kind = "parsed" THEN file.names ELSE {}

\* (a selection that takes every container, labelled or not)
selected_unlabelled(containers, services) == containers

\* svc and (not services or svc in services)
selected(containers, services) ==
  {c \in containers : c.svc # "" /\ (services = {} \/ c.svc \in services)}

\* the loop over the containers: c.stop if running, c.remove,
\* removed.append(c.name); an exception of either is logged
cleanup_of(containers, services, stop_fails, remove_fails) ==
  LET sel == selected(containers, services)
      stop_called == {c \in sel : c.status = "running"}
      stopped == {c \in stop_called : c.name \notin stop_fails}
      remove_called == {c \in sel : ~(c.status = "running" /\ c.name \in stop_fails)}
      removed == {c \in remove_called : c.name \notin remove_fails}
  IN [listed |-> containers, services |-> services,
      stop_fails |-> stop_fails, remove_fails |-> remove_fails,
      stopped |-> {c.name : c \in stopped},
      removed |-> {c.name : c \in removed},
      reported |-> {c.name : c \in removed}]

\* if action == 'down': the SDK fallback; import docker, docker.from_env()
\* or containers.list raising falls through to return False, msg
compose_sdk ==
  \E available \in BOOLEAN, file \in ComposeFiles, containers \in SUBSET ContainerSamples,
     stop_fails \in SUBSET {"wiki_web_1"}, remove_fails \in SUBSET {"wiki_db_1"} :
    /\ shell.called /\ shell.fn = "run_compose" /\ shell.pc = "sdk"
    /\ shell' =
         IF available
         THEN LET cl == cleanup_of(containers, services_of(file), stop_fails, remove_fails)
              IN [shell EXCEPT !.pc = "done", !.cleanup = Some([file |-> file] @@ cl),
                               !.result = Some([ok |-> TRUE,
                                                out |-> <<"docker SDK fallback removed containers: ",
                                                          cl.reported>>])]
         ELSE [shell EXCEPT !.pc = "done", !.result = Some(failed_result(shell.out))]
    /\ UNCHANGED <<vars, view_vars, lookup>>

docker_utils_run_compose ==
  \/ compose_begin
  \/ compose_primary
  \/ compose_alt
  \/ compose_sdk

\* -------------------------------------------------- docker_utils.get_status
\* One call of get_status of src/docker_utils.py, one step per `docker
\* compose ps` command, then the monitor lookup and the HTTP probe.

\* seconds subprocess.run may take before TimeoutExpired in get_status, and
\* seconds requests.get may take in the probe
StatusTimeout == 30
ProbeTimeout == 3

\* the monitor snapshots of these calls: none, and the Wiki monitor down
StatusSnapshots ==
  {<<>>, _parse_prom_metrics(<<metric_line("monitor_status", Monitors.a, 0)>>)}

\* compose_path = service.get('__compose_path'); project_candidates
status_begin ==
  \E service \in Descriptors, kuma \in StatusSnapshots, has_path \in BOOLEAN,
     parent \in ParentNames :
    /\ ~shell.called
    /\ shell' = [called |-> TRUE, fn |-> "get_status", service |-> service, kuma |-> kuma,
                 parent |-> parent, cands |-> project_candidates(parent),
                 pc |-> IF has_path THEN "ps" ELSE "fallback", i |-> 1,
                 ran |-> <<>>, blocked |-> 0, probe_blocked |-> 0, result |-> Null]
    /\ UNCHANGED <<vars, view_vars, lookup>>

\* one pass of `for proj in project_candidates`: a running token returns
\* 'running', FileNotFoundError breaks, anything else goes on
status_ps ==
  \E cli \in CliOutcomes :
    /\ shell.called /\ shell.fn = "get_status" /\ shell.pc = "ps"
    /\ LET cmd == compose_cmd("docker compose", shell.cands[shell.i], "-f")
           spent == shell.blocked + (IF cli.kind = "timeout" THEN StatusTimeout ELSE 0)
       IN shell' =
            IF cli.kind = "output" /\ \E tok \in running_tokens : contains(lower(cli.out), tok)
            THEN [shell EXCEPT !.pc = "done", !.ran = Append(@, cmd),
                               !.result = Some("running")]
            ELSE IF cli.kind # "absent" /\ shell.i < Len(shell.cands)
            THEN [shell EXCEPT !.i = @ + 1, !.ran = Append(@, cmd), !.blocked = spent]
            ELSE [shell EXCEPT !.pc = "fallback", !.ran = Append(@, cmd), !.blocked = spent]
    /\ UNCHANGED <<vars, view_vars, lookup>>

\* the monitor lookup, then the HTTP probe of the service URL, then
\* return 'unknown'
status_fallback ==
  \E http \in HttpOutcomes :
    /\ shell.called /\ shell.fn = "get_status" /\ shell.pc = "fallback"
    /\ LET m == monitor_tier(shell.service, shell.kuma)
           probed == m = Null /\ get(shell.service, "url") # <<>>
       IN shell' = [shell EXCEPT
                      !.pc = "done",
                      !.probe_blocked = IF probed /\ http.kind = "neterror"
                                        THEN ProbeTimeout ELSE 0,
                      !.result = IF m # Null THEN m
                                 ELSE IF probed THEN probe_tier(http)
                                 ELSE Some("unknown")]
    /\ UNCHANGED <<vars, view_vars, lookup>>

docker_utils_get_status ==
  \/ status_begin
  \/ status_ps
  \/ status_fallback

\* ------------------------------------------------------ fetch_kuma_metrics
\* One call of fetch_kuma_metrics by request thread t, statement by
\* statement: the threads of a process share _KUMA_METRICS_CACHE without a
\* lock. `history` records which request (numbered by net) wrote 'ts' and
\* 'data' last and the last call that fetched and parsed successfully; a
\* call notes the 'ts' it tested and the request numbers behind that 'ts'
\* and behind the 'data' it returned.

\* what the monitor endpoint can answer: requests.get raises, a non-2xx
\* status (raise_for_status raises), a body _parse_prom_metrics raises on,
\* or a body that parses
Responses ==
  {[kind |-> k, text |-> <<>>] : k \in {"neterror", "http_error", "parse_error"}}
    \cup {[kind |-> "ok", text |-> text] :
            text \in {<<>>,
                      <<metric_line("monitor_status", Monitors.a, 1)>>,
                      <<metric_line("monitor_status", Monitors.a, 0)>>}}

\* if not UPTIME_KUMA_URL: return {};  now = time.time()
fetch_begin(t) ==
  /\ fetch[t].pc = "idle"
  /\ fetch' = [fetch EXCEPT ![t] =
                 IF ~UPTIME_KUMA_URL
                 THEN [pc |-> "returned", ret |-> <<>>, how |-> "unconfigured"]
                 ELSE [pc |-> "test_ts", now |-> now, prior |-> history.last_ok,
                       requested |-> FALSE]]
  /\ UNCHANGED <<vars, call_vars, listing, metrics, UPTIME_KUMA_URL, _KUMA_METRICS_CACHE, now, net, history>>

\* now - _KUMA_METRICS_CACHE['ts'] < KUMA_CACHE_TTL
fetch_test_ts(t) ==
  /\ fetch[t].pc = "test_ts"
  /\ fetch' = [fetch EXCEPT ![t] =
                 IF fetch[t].now - _KUMA_METRICS_CACHE.ts < KUMA_CACHE_TTL
                 THEN [pc |-> "test_data", now |-> @.now, prior |-> @.prior,
                       requested |-> FALSE, ts_of |-> history.ts,
                       ts_seen |-> _KUMA_METRICS_CACHE.ts]
                 ELSE [@ EXCEPT !.pc = "request"]]
  /\ UNCHANGED <<vars, call_vars, listing, metrics, UPTIME_KUMA_URL, _KUMA_METRICS_CACHE, now, net, history>>

\* ... and _KUMA_METRICS_CACHE['data']: an empty dict is falsy
fetch_test_data(t) ==
  /\ fetch[t].pc = "test_data"
  /\ fetch' = [fetch EXCEPT ![t] =
                 IF _KUMA_METRICS_CACHE.data # <<>>
                 THEN [@ EXCEPT !.pc = "return_data"]
                 ELSE [pc |-> "request", now |-> @.now, prior |-> @.prior,
                       requested |-> FALSE]]
  /\ UNCHANGED <<vars, call_vars, listing, metrics, UPTIME_KUMA_URL, _KUMA_METRICS_CACHE, now, net, history>>

\* return _KUMA_METRICS_CACHE['data']
fetch_return_cached(t) ==
  /\ fetch[t].pc = "return_data"
  /\ fetch' = [fetch EXCEPT ![t] =
                 [pc |-> "returned", ret |-> _KUMA_METRICS_CACHE.data, how |-> "cached",
                  now |-> @.now, prior |-> @.prior, requested |-> FALSE,
                  ts_of |-> @.ts_of, ts_seen |-> @.ts_seen, data_of |-> history.data]]
  /\ UNCHANGED <<vars, call_vars, listing, metrics, UPTIME_KUMA_URL, _KUMA_METRICS_CACHE, now, net, history>>

\* (a failed fetch that empties the cache)
fetch_failed_clearing(t) ==
  /\ fetch' = [fetch EXCEPT ![t] =
                 [pc |-> "returned", ret |-> <<>>, how |-> "failed",
                  now |-> @.now, prior |-> @.prior, requested |-> TRUE]]
  /\ _KUMA_METRICS_CACHE' = [ts |-> 0, data |-> <<>>]
  /\ UNCHANGED history

\* except Exception: logger.exception(...); return {}
fetch_failed(t) ==
  /\ fetch' = [fetch EXCEPT ![t] =
                 [pc |-> "returned", ret |-> <<>>, how |-> "failed",
                  now |-> @.now, prior |-> @.prior, requested |-> TRUE]]
  /\ UNCHANGED <<_KUMA_METRICS_CACHE, history>>

\* resp = requests.get(url, ...); resp.raise_for_status();
\* parsed = _parse_prom_metrics(resp.text)
fetch_request(t) ==
  \E resp \in Responses :
    /\ fetch[t].pc = "request"
    /\ net < MaxFetches
    /\ net' = net + 1
    /\ IF resp.kind = "ok"
       THEN /\ fetch' = [fetch EXCEPT ![t] =
                           [pc |-> "store_ts", now |-> @.now, prior |-> @.prior,
                            requested |-> TRUE, parsed |-> _parse_prom_metrics(resp.text),
                            request |-> net + 1]]
            /\ UNCHANGED <<_KUMA_METRICS_CACHE, history>>
       ELSE fetch_failed(t)
    /\ UNCHANGED <<vars, call_vars, listing, metrics, UPTIME_KUMA_URL, now>>

\* _KUMA_METRICS_CACHE['ts'] = now
fetch_store_ts(t) ==
  /\ fetch[t].pc = "store_ts"
  /\ _KUMA_METRICS_CACHE' = [_KUMA_METRICS_CACHE EXCEPT !.ts = fetch[t].now]
  /\ history' = [history EXCEPT !.ts = fetch[t].request]
  /\ fetch' = [fetch EXCEPT ![t].pc = "store_data"]
  /\ UNCHANGED <<vars, call_vars, listing, metrics, UPTIME_KUMA_URL, now, net>>

\* _KUMA_METRICS_CACHE['data'] = parsed; return parsed
fetch_store_data(t) ==
  /\ fetch[t].pc = "store_data"
  /\ _KUMA_METRICS_CACHE' = [_KUMA_METRICS_CACHE EXCEPT !.data = fetch[t].parsed]
  /\ history' = [history EXCEPT !.data = fetch[t].request,
                                !.last_ok = Some([start |-> fetch[t].now,
                                                  data |-> fetch[t].parsed])]
  /\ fetch' = [fetch EXCEPT ![t] =
                 [pc |-> "returned", ret |-> @.parsed, how |-> "fetched",
                  now |-> @.now, prior |-> @.prior, requested |-> TRUE]]
  /\ UNCHANGED <<vars, call_vars, listing, metrics, UPTIME_KUMA_URL, now, net>>

\* the caller has its snapshot; the thread is free for the next request
fetch_done(t) ==
  /\ fetch[t].pc = "returned"
  /\ fetch' = [fetch EXCEPT ![t] = [pc |-> "idle"]]
  /\ UNCHANGED <<vars, call_vars, listing, metrics, UPTIME_KUMA_URL, _KUMA_METRICS_CACHE, now, net, history>>

\* time passes: one second less than the TTL, or the TTL
advance ==
  \E d \in {KUMA_CACHE_TTL - 1, KUMA_CACHE_TTL} :
    /\ now + d <= MaxNow
    /\ now' = now + d
    /\ UNCHANGED <<vars, call_vars, listing, metrics, UPTIME_KUMA_URL, _KUMA_METRICS_CACHE, fetch, net, history>>

fetch_kuma_metrics(t) ==
  \/ fetch_begin(t)
  \/ fetch_test_ts(t)
  \/ fetch_test_data(t)
  \/ fetch_return_cached(t)
  \/ fetch_request(t)
  \/ fetch_store_ts(t)
  \/ fetch_store_data(t)
  \/ fetch_done(t)

\* ------------------------------------------------------- specifications
\* An environment E bounds what the outside world does: E.jobs job ids are
\* drawn in all, requests name one of E.names, a durable write ends as one
\* of E.writes (TRUE: committed, FALSE: raised), a compose file exists as
\* one of E.files and the docker subprocess ends as one of E.exits.
Requests(p, E) ==
  \/ api_start(p, E)
  \/ api_stop(p, E)
  \/ api_start_all(p, E)
  \/ api_stop_all(p, E)
  \/ api_job(p, E)

Run(p, E) ==
  \/ run_begin(p)
  \/ run_persist_start(p, E)
  \/ run_finish(p, E)
  \/ run_persist_final(p, E)

\* every kind of request, write failure and subprocess outcome, for one job
Env ==
  [jobs |-> MaxJobs, names |-> RequestNames, writes |-> BOOLEAN,
   files |-> BOOLEAN, exits |-> Exits]

Next ==
  \/ \E p \in Procs : Requests(p, Env)
  \/ \E p \in Procs : Run(p, Env)
  \/ \E p \in Procs : Restart(p)
  \/ Tick

Spec == Init /\ [][Next]_vars

\* several start jobs of the registered service on two processes
FleetEnv ==
  [jobs |-> FleetJobs, names |-> {Some("wiki"), Some("ghost")}, writes |-> BOOLEAN,
   files |-> {TRUE}, exits |-> {"exit0", "exit1"}]

FleetNext ==
  \/ \E p \in Procs : api_start(p, FleetEnv)
  \/ \E p \in Procs : api_start_all(p, FleetEnv)
  \/ \E p \in Procs : api_job(p, FleetEnv)
  \/ \E p \in Procs : Run(p, FleetEnv)
  \/ \E p \in Procs : Restart(p)

FleetSpec == Init /\ [][FleetNext]_vars

\* more jobs than pool threads, on one process whose durable writes commit
PoolEnv ==
  [jobs |-> PoolJobs, names |-> {Some("wiki")}, writes |-> {TRUE},
   files |-> {TRUE}, exits |-> {"exit0", "exit1", "timeout"}]

PoolNext ==
  \/ \E p \in PoolProcs : api_start(p, PoolEnv)
  \/ \E p \in PoolProcs : Run(p, PoolEnv)

PoolSpec == Init /\ [][PoolNext]_vars

\* the pool's threads keep running (no restart) and every external command
\* returns or hits its timeout: a task that can take a step takes it
LiveSpec == Init /\ [][PoolNext]_vars /\ \A p \in PoolProcs : WF_vars(Run(p, PoolEnv))

\* every route, with or without the docker CLI, on one process whose durable
\* writes commit
RouteEnv ==
  [jobs |-> RouteJobs, names |-> RequestNames, writes |-> {TRUE},
   files |-> {TRUE}, exits |-> {"exit0", "exit1"}]

RouteNext ==
  \/ \E p \in PoolProcs : Requests(p, RouteEnv)
  \/ \E p \in PoolProcs : Run(p, RouteEnv)

RouteSpec == Init /\ [][RouteNext]_vars

\* jobs submitted through src/jobs.py on one process whose pool keeps
\* running, with durable writes that commit or raise
ModuleEnv ==
  [jobs |-> ModuleJobs, names |-> {Some("wiki")}, writes |-> BOOLEAN,
   files |-> {TRUE}, exits |-> {"exit0", "exit1"}]

ModuleNext ==
  \/ \E p \in PoolProcs : jobs_submit_job(p, ModuleEnv)
  \/ \E p \in PoolProcs : jobs_Run(p, ModuleEnv)

ModuleSpec == Init /\ [][ModuleNext]_vars

ModuleLiveSpec ==
  Init /\ [][ModuleNext]_vars /\ \A p \in PoolProcs : WF_vars(jobs_Run(p, ModuleEnv))

\* the two modules that keep a mirror of the job table, each in a process
\* of its own: src/app.py with its start and stop routes, and src/jobs.py;
\* durable writes commit or raise
MirrorEnv ==
  [jobs |-> MirrorJobs, names |-> {Some("wiki")}, writes |-> BOOLEAN,
   files |-> {TRUE}, exits |-> {"exit0", "exit1"}]

MirrorNext ==
  \/ api_start("w1", MirrorEnv)
  \/ api_stop("w1", MirrorEnv)
  \/ Run("w1", MirrorEnv)
  \/ jobs_submit_job("w2", MirrorEnv)
  \/ jobs_Run("w2", MirrorEnv)

MirrorSpec == Init /\ [][MirrorNext]_vars

\* start and stop jobs of src/app.py, and calls of run_compose of
\* src/docker_utils.py, where no compose file exists; the pool's threads
\* keep running and durable writes commit or raise
MissingEnv ==
  [jobs |-> MissingJobs, names |-> {Some("wiki")}, writes |-> BOOLEAN,
   files |-> {FALSE}, exits |-> Exits]

MissingNext ==
  \/ \E p \in PoolProcs : api_start(p, MissingEnv)
  \/ \E p \in PoolProcs : api_stop(p, MissingEnv)
  \/ \E p \in PoolProcs : Run(p, MissingEnv)
  \/ compose_begin_on(FALSE)

MissingSpec == Init /\ [][MissingNext]_all_vars

MissingLiveSpec ==
  Init /\ [][MissingNext]_all_vars
       /\ \A p \in PoolProcs : WF_all_vars(Run(p, MissingEnv))

\* the status resolver applied to every descriptor, snapshot and world
StatusNext == list_service

StatusSpec == Init /\ [][StatusNext]_all_vars

\* the metrics parser applied to every text
ParseNext == parse_text

ParseSpec == Init /\ [][ParseNext]_all_vars

ComposeNext ==
  \/ docker_utils_run_compose
  \/ docker_utils_get_status

ComposeSpec == Init /\ [][ComposeNext]_all_vars

LookupNext == lookup_monitor

LookupSpec == Init /\ [][LookupNext]_all_vars

\* the request threads of one process fetching the monitor snapshot, the
\* monitor endpoint configured or not
KumaInit ==
  /\ JobsInit
  /\ CallsInit
  /\ CacheInit
  /\ UPTIME_KUMA_URL \in BOOLEAN

KumaNext ==
  \/ \E t \in Threads : fetch_kuma_metrics(t)
  \/ advance

KumaSpec == KumaInit /\ [][KumaNext]_all_vars

\* one request thread calling fetch_kuma_metrics again and again, the monitor
\* endpoint configured
SerialNext ==
  \/ fetch_kuma_metrics("t1")
  \/ advance

SerialSpec == Init /\ [][SerialNext]_all_vars

\* ================================================================ claims
Rank(status) == CASE status = "pending" -> 0 [] status = "running" -> 1 [] OTHER -> 2

\* the job ids on a pool's work queue
QueuedIds(q) == {q[i].job_id : i \in 1..Len(q)}

\* the jobs process p's mirror shows as running
Running(p) == {id \in DOMAIN JOBS[p] : JOBS[p][id].status = "running"}

\* ---- C1
\* C1: a job's status never moves backwards, never leaves done/failed and
\* never becomes running a second time, in the mirror and in the durable
\* row: the mirror steps pending -> running -> done|failed, and the durable
\* row only ever moves forward in that order.
MirrorStep(a, b) ==
  \/ a = b
  \/ a = "pending" /\ b = "running"
  \/ a = "running" /\ b \in Terminal

DurableStep(a, b) == a = b \/ Rank(a) < Rank(b)

C1_StatusOneWay ==
  [][ /\ \A p \in Procs : \A id \in DOMAIN JOBS[p] \cap DOMAIN JOBS'[p] :
           MirrorStep(JOBS[p][id].status, JOBS'[p][id].status)
      /\ \A id \in DOMAIN db :
           id \in DOMAIN db' /\ DurableStep(db[id].status, db'[id].status) ]_vars

C1_Witness ==
  \E p \in Procs : \E id \in DOMAIN JOBS[p] \cap DOMAIN db :
    /\ JOBS[p][id].status \in Terminal
    /\ db[id].status \in Terminal
    /\ db[id].started_at # Null
    /\ nextId > FleetJobs

\* ---- C2
\* C2: in every durable row, result and finished_at are set exactly when the
\* status is done or failed, started_at is set exactly when the status is
\* not pending, and finished_at >= started_at when both are set.
RowConsistent(r) ==
  /\ (r.result # Null) <=> (r.status \in Terminal)
  /\ (r.finished_at # Null) <=> (r.status \in Terminal)
  /\ (r.started_at # Null) <=> (r.status # "pending")
  /\ (r.started_at # Null /\ r.finished_at # Null) => r.finished_at[1] >= r.started_at[1]

C2_RowConsistent == \A id \in DOMAIN db : RowConsistent(db[id])

C4_QueryReadsDurableRow ==
  \A q \in Procs : \A id \in 1..FleetJobs :
    LET r == api_job_reply(q, id, TRUE) IN
    /\ id >= nextId => r.code = 404
    /\ id \in DOMAIN db => r.code = 200 /\ r.job = Some(db[id])
    /\ \A p \in Procs :
         ( /\ id \in DOMAIN JOBS[p]
           /\ id \notin QueuedIds(queue[p]) \cup DOMAIN tasks[p]
           /\ \A k \in {"save", "start", "result"} : <<k, id>> \notin log )
         => r.job = Some(JOBS[p][id])

C4_Witness ==
  \E p, q \in Procs : \E id \in DOMAIN JOBS[p] :
    /\ p # q
    /\ id \notin DOMAIN JOBS[q]
    /\ JOBS[p][id].status \in Terminal
    /\ api_job_reply(q, id, TRUE).code = 200
    /\ api_job_reply(q, id, TRUE).job = Some(JOBS[p][id])

\* ---- C5
\* C5: every job id that submit_job has returned is answered with a job
\* record by a status query, never with not-found.
C5_ReturnedIdIsFound ==
  \A p \in Procs : \A id \in 1..(nextId - 1) : api_job_reply(p, id, TRUE).code = 200

\* ---- C6
\* C6: a process never has more than max_workers jobs running; the jobs
\* still on the work queue are pending; a job starts only while fewer than
\* max_workers are running; and submit_job can return while all threads are
\* taken, starting and finishing no run_compose call itself.
C6_PoolBound ==
  /\ [](\A p \in PoolProcs :
          /\ Cardinality(Running(p)) <= max_workers
          /\ Cardinality({id \in DOMAIN tasks[p] : tasks[p][id].pc = "compose"}) <= max_workers
          /\ \A id \in QueuedIds(queue[p]) : JOBS[p][id].status = "pending"
          /\ nextId <= PoolJobs =>
               ENABLED start_stop(p, PoolJobs, "start", Some("wiki"), TRUE, TRUE))
  /\ [][ \A p \in PoolProcs :
           /\ \A id \in DOMAIN JOBS[p] :
                (JOBS[p][id].status = "pending" /\ JOBS'[p][id].status = "running")
                  => Cardinality(Running(p)) < max_workers
           /\ nextId' > nextId =>
                /\ tasks' = tasks /\ composes' = composes
                /\ \A id \in nextId..(nextId' - 1) :
                     id \in QueuedIds(queue'[p]) /\ JOBS'[p][id].status = "pending" ]_vars

C6_Witness ==
  \E p \in PoolProcs :
    /\ Cardinality(Running(p)) = max_workers
    /\ \E id \in QueuedIds(queue[p]) : JOBS[p][id].status = "pending"

\* ---- C7
\* C7: after a durable write that succeeded, the initial one or a
\* status-transition one, a row for the job id exists and holds the fields
\* written, whether or not a row existed before.
C7_WritesAreUpserts ==
  [][ \A p \in Procs : \A id \in 1..MaxJobs :
        /\ (id = uuid4(nextId) /\ \E action \in {"start", "stop"}, name \in RequestNames :
              start_stop(p, MaxJobs, action, name, TRUE, TRUE))
             => (id \in DOMAIN db' /\ db'[id].status = "pending")
        /\ (id \in DOMAIN tasks[p] /\ persist_start(p, id, TRUE))
             => ( /\ id \in DOMAIN db'
                  /\ db'[id].status = "running"
                  /\ db'[id].started_at = Some(tasks[p][id].start_ts) )
        /\ (id \in DOMAIN tasks[p] /\ persist_final(p, id, TRUE))
             => ( /\ id \in DOMAIN db'
                  /\ db'[id].status = tasks[p][id].final_status
                  /\ db'[id].result = Some(tasks[p][id].out)
                  /\ db'[id].finished_at = Some(tasks[p][id].finish_ts) ) ]_vars

\* ---- C8
\* C8: run_compose is called at most once per job id; a job is queued and
\* executed only in the process that accepted it, which is one process; and
\* a pool's queue only ever gains identifiers drawn by a new submission, so
\* a job left pending or running in the table by a restart is never run
\* again.
C8_AtMostOneExecution ==
  /\ [](/\ \A id \in DOMAIN composes : composes[id] <= 1
        /\ \A p \in Procs : QueuedIds(queue[p]) \cup DOMAIN tasks[p] \subseteq DOMAIN JOBS[p]
        /\ \A p, q \in Procs : p # q => DOMAIN JOBS[p] \cap DOMAIN JOBS[q] = {})
  /\ [][ \A p \in Procs :
           /\ QueuedIds(queue'[p]) \subseteq QueuedIds(queue[p]) \cup nextId..(nextId' - 1)
           /\ DOMAIN tasks'[p] \subseteq DOMAIN tasks[p] \cup QueuedIds(queue[p]) ]_vars

C8_Witness ==
  \E id \in DOMAIN db \cap DOMAIN composes :
    /\ db[id].status = "running"
    /\ composes[id] = 1
    /\ \A p \in Procs : id \notin DOMAIN JOBS[p]

\* ---- C9
\* C9: a start or stop request whose name is the 'name' or 'id' of no
\* registry entry, a request without a name included, is answered not-found
\* and writes no row, adds no JOBS entry and schedules nothing.
Matches(name) ==
  /\ name # Null
  /\ \E i \in 1..Len(load_services) :
       get(load_services[i], "name") = name \/ get(load_services[i], "id") = name

C9_UnmatchedCreatesNoJob ==
  [][ \A p \in Procs, action \in {"start", "stop"}, name \in RequestNames,
         cli \in BOOLEAN, saved \in BOOLEAN :
        (~Matches(name) /\ start_stop(p, MaxJobs, action, name, cli, saved))
          => (start_stop_reply(name, cli).code = 404 /\ UNCHANGED <<db, JOBS, queue, tasks>>) ]_vars

\* ---- C10
\* C10: with the CLI absent, start and stop answer 500 for a registered
\* name and 404 for an unregistered one, start-all and stop-all answer 500,
\* and none of them writes a row, adds a JOBS entry or schedules a task.
C10_NoCliNoJob ==
  /\ [](/\ \A name \in {Some("wiki"), Some("ghost")} :
             start_stop_reply(name, FALSE).code = IF Matches(name) THEN 500 ELSE 404
        /\ start_stop_all_reply(FALSE).code = 500)
  /\ [][ \A p \in PoolProcs, action \in {"start", "stop"} :
           /\ \A name \in {Some("wiki"), Some("ghost")}, saved \in RouteEnv.writes :
                start_stop(p, RouteJobs, action, name, FALSE, saved)
                  => UNCHANGED <<db, JOBS, queue, tasks, nextId, log>>
           /\ \A saved \in [1..Len(all_items) -> RouteEnv.writes] :
                start_stop_all(p, RouteJobs, action, FALSE, saved)
                  => UNCHANGED <<db, JOBS, queue, tasks, nextId, log>> ]_vars

C10_Witness ==
  /\ db # <<>>
  /\ start_stop_reply(Some("wiki"), FALSE).code = 500
  /\ start_stop_reply(Some("ghost"), FALSE).code = 404
  /\ start_stop_all_reply(FALSE).code = 500
  /\ start_stop_reply(Some("wiki"), TRUE).code = 200

StatusLabels == {Some("running"), Some("stopped"), Some("missing"), Some("unknown")}

C12_OneOfFourLabels == listing.called => listing.result.status \in StatusLabels

\* ---- C13
\* C13: when the compose path exists and the CLI tier gives no running
\* verdict (binary not found, error or timeout, output without a running
\* token), get_status goes on to the monitor tier and then the URL probe,
\* and returns what those two tiers produce.
HasRunningToken(out) ==
  \E tok \in running_tokens : \E i \in 0..(Len(out) - Len(tok)) :
    \A j \in 1..Len(tok) : lower_char(out[i + j]) = tok[j]

NoCliVerdict(w) ==
  /\ w.exists
  /\ w.cli.kind = "output" => ~HasRunningToken(w.cli.out)

\* what the monitor tier followed by the URL-probe tier produce
LowerTiers(service, kuma, http) ==
  LET m == monitor_tier(service, kuma) IN
  IF m # Null THEN m
  ELSE IF get(service, "url") # <<>> THEN probe_tier(http)
  ELSE Some("unknown")

C13_FallsThroughCli ==
  (listing.called /\ NoCliVerdict(listing.world))
    => /\ listing.result.status
            = LowerTiers(listing.service, listing.kuma, listing.world.http)
       /\ Len(listing.result.calls) >= 2
       /\ listing.result.calls[2] = "monitor"

\* ---- C14
\* C14: when the CLI tier gives no running verdict and the matched monitor
\* entry carries a status code, get_status returns running for code 1 and
\* stopped for every other code, and issues no HTTP probe; when no monitor
\* matches or the entry has no status code, the URL probe decides.
C14_MonitorBeforeProbe ==
  (listing.called /\ NoCliVerdict(listing.world))
    => LET mon == find_kuma_monitor_for_service(listing.service, listing.kuma)
           coded == mon # Null /\ "status_code" \in DOMAIN mon[1]
       IN /\ coded =>
               /\ listing.result.status
                    = Some(IF mon[1].status_code = 1 THEN "running" ELSE "stopped")
               /\ \A i \in 1..Len(listing.result.calls) : listing.result.calls[i] # "probe"
          /\ (~coded /\ get(listing.service, "url") # <<>>) =>
               /\ listing.result.status = probe_tier(listing.world.http)
               /\ \E i \in 1..Len(listing.result.calls) : listing.result.calls[i] = "probe"

\* ---- C15
\* C15: when the compose path exists and the output of the CLI list command
\* contains, in any case, one of the tokens up, running, healthy, started,
\* get_status returns running and makes no monitor lookup and no HTTP probe.
C15_CliVerdictRunning ==
  ( /\ listing.called
    /\ listing.world.exists
    /\ listing.world.cli.kind = "output"
    /\ HasRunningToken(listing.world.cli.out) )
    => listing.result = [status |-> Some("running"), calls |-> <<"ps">>]

C15_Witness ==
  /\ listing.called
  /\ listing.world.exists
  /\ listing.world.cli.kind = "output"
  /\ HasRunningToken(listing.world.cli.out)
  /\ ~contains(listing.world.cli.out, <<"u", "p">>)
  /\ monitor_tier(listing.service, listing.kuma) = Some("stopped")
  /\ listing.result.status = Some("running")

\* ---- C16
\* C16: when the resolver reaches the URL-probe tier, the result is running
\* for a response with a status code below 400, stopped for a response with
\* a code of 400 or above, unknown for a network error, and unknown when the
\* descriptor has no URL.
C16_ProbeTier ==
  ( /\ listing.called
    /\ listing.world.exists
    /\ listing.world.cli.kind = "absent"
    /\ monitor_tier(listing.service, listing.kuma) = Null )
    => listing.result.status
         = IF get(listing.service, "url") = <<>> THEN Some("unknown")
           ELSE IF listing.world.http.kind = "neterror" THEN Some("unknown")
           ELSE IF listing.world.http.code < 400 THEN Some("running")
           ELSE Some("stopped")

\* ---- C20
\* C20: in the mapping _parse_prom_metrics returns, every monitor entry is
\* found under each of its non-absent keys (url:, name:, id:), and a lookup
\* of any of an entry's own keys returns that entry, also when monitors share
\* a name or a normalized URL or when a synthesized ordinal equals another
\* monitor's monitor_id.
KeysOf(entry) ==
  (IF entry.norm_url # <<>> THEN {url_key(entry.norm_url)} ELSE {})
    \cup (IF entry.name # <<>> THEN {name_key(entry.name)} ELSE {})
    \cup (IF entry.monitor_id # <<>> THEN {id_key(entry.monitor_id)} ELSE {})

C20_EveryKeyFindsItsEntry ==
  metrics.called =>
    \A i \in 1..Len(metrics.monitors) :
      \A k \in KeysOf(metrics.monitors[i].entry) :
        k \in DOMAIN metrics.mapped /\ metrics.mapped[k] = metrics.monitors[i].entry

\* a step of thread t changing nothing of the other threads
StepOf(t) == fetch'[t] # fetch[t] /\ \A u \in Threads \ {t} : fetch'[u] = fetch[u]

\* C17: the step in which a call fails (network error, non-2xx response or
\* parse error) returns the empty mapping and leaves the cached data and the
\* cache timestamp as they were; no step of a call that ends in failure
\* writes the cache: every step that changes the cache is a store of a call
\* whose fetch and parse both succeeded.
C17_FailureKeepsCache ==
  [][/\ \A t \in Threads :
          (fetch[t].pc = "request" /\ fetch'[t].pc = "returned")
            => /\ fetch'[t].how = "failed"
               /\ fetch'[t].ret = <<>>
               /\ _KUMA_METRICS_CACHE' = _KUMA_METRICS_CACHE
     /\ (_KUMA_METRICS_CACHE' # _KUMA_METRICS_CACHE)
          => \E t \in Threads :
               /\ StepOf(t)
               /\ fetch[t].pc \in {"store_ts", "store_data"}
               /\ fetch[t].requested
               /\ _KUMA_METRICS_CACHE'.data \in {_KUMA_METRICS_CACHE.data, fetch[t].parsed}
               /\ _KUMA_METRICS_CACHE'.ts \in {_KUMA_METRICS_CACHE.ts, fetch[t].now}]_all_vars

\* a call has failed while the cache holds an earlier snapshot
C17_Witness ==
  \E t \in Threads :
    /\ fetch[t].pc = "returned"
    /\ fetch[t].how = "failed"
    /\ _KUMA_METRICS_CACHE.data # <<>>
    /\ _KUMA_METRICS_CACHE.ts > 0

\* thread t is inside a call that began within the TTL of the start of an
\* earlier call that fetched and parsed
InSecondCall(t) ==
  /\ fetch[t].pc # "idle"
  /\ "prior" \in DOMAIN fetch[t]
  /\ fetch[t].prior # Null
  /\ fetch[t].now - fetch[t].prior[1].start < KUMA_CACHE_TTL

\* C18: a call made within one TTL window of a successful earlier call sends
\* no request of its own and returns the snapshot the earlier call returned,
\* whatever that snapshot holds.
C18_SecondCallServedFromCache ==
  \A t \in Threads :
    InSecondCall(t)
      => /\ fetch[t].pc # "request"
         /\ ~fetch[t].requested
         /\ (fetch[t].pc = "returned" => fetch[t].ret = fetch[t].prior[1].data)

\* the mappings one parse of one response builds
ParsedSnapshots ==
  {_parse_prom_metrics(resp.text) : resp \in {x \in Responses : x.kind = "ok"}}

\* C19: with several request threads, a snapshot returned from the cache is
\* the whole mapping of one parse, and the data a reader returns is not of
\* an older fetch than the timestamp the reader judged fresh.
C19_ReaderSeesOneCycle ==
  \A t \in Threads :
    (fetch[t].pc = "returned" /\ fetch[t].how = "cached")
      => /\ fetch[t].ret \in ParsedSnapshots
         /\ fetch[t].data_of >= fetch[t].ts_of

\* the descriptor of the lookup has a URL whose key is in the snapshot
UrlKeyPresent ==
  /\ get(lookup.service, "url") # <<>>
  /\ service_url_key(get(lookup.service, "url")) \in DOMAIN lookup.kuma

\* the descriptor of the lookup has a name whose key is in the snapshot
NameKeyPresent ==
  /\ get(lookup.service, "name") # <<>>
  /\ service_name_key(get(lookup.service, "name")) \in DOMAIN lookup.kuma

\* C21: the lookup returns the entry under the descriptor's url: key
\* whenever that key is in the snapshot, whatever the name: key maps to; the
\* entry under the name: key only when there is no URL or no url: key; and
\* no match when neither key is present or the snapshot is empty.
C21_UrlBeforeName ==
  lookup.called =>
    /\ UrlKeyPresent
         => lookup.result = Some(lookup.kuma[service_url_key(get(lookup.service, "url"))])
    /\ (~UrlKeyPresent /\ NameKeyPresent)
         => lookup.result = Some(lookup.kuma[service_name_key(get(lookup.service, "name"))])
    /\ (~UrlKeyPresent /\ ~NameKeyPresent) => lookup.result = Null
    /\ lookup.kuma = <<>> => lookup.result = Null

\* both keys are present and map to different entries; the URL's is returned
C21_Witness ==
  /\ lookup.called
  /\ UrlKeyPresent
  /\ NameKeyPresent
  /\ lookup.kuma[service_url_key(get(lookup.service, "url"))]
       # lookup.kuma[service_name_key(get(lookup.service, "name"))]
  /\ lookup.result = Some(lookup.kuma[service_url_key(get(lookup.service, "url"))])

\* the two spellings of the example URL, and the key both are said to have
ExampleUrls ==
  {<<"h", "t", "t", "p", "s", ":", "/", "/", "E", "x", "a", "m", "p", "l", "e", ".", "c", "o", "m", ":", "8", "0", "8", "0", "/", "p", "a", "t", "h", "?", "x", "=", "1">>,
   <<"h", "t", "t", "p", "s", ":", "/", "/", "E", "x", "a", "m", "p", "l", "e", ".", "c", "o", "m", ":", "8", "0", "8", "0", "/">>}

ExampleKey ==
  <<"u", "r", "l", ":", "h", "t", "t", "p", "s", ":", "/", "/", "e", "x", "a", "m", "p", "l", "e", ".", "c", "o", "m", ":", "8", "0", "8", "0">>

\* C22: both spellings of the example URL have the key
\* url:https://example.com:8080, as the descriptor URL of a lookup and as
\* the monitor_url of a snapshot entry.
C22_ExampleUrlKey ==
  lookup.called =>
    /\ get(lookup.service, "url") \in ExampleUrls
         => service_url_key(get(lookup.service, "url")) = ExampleKey
    /\ \A k \in DOMAIN lookup.kuma :
         lookup.kuma[k].url \in ExampleUrls
           => /\ url_key(lookup.kuma[k].norm_url) = ExampleKey
              /\ ExampleKey \in DOMAIN lookup.kuma

\* a call of run_compose of src/docker_utils.py is under way or over
InRunCompose == shell.called /\ shell.fn = "run_compose"

IsPrefix(a, b) == Len(a) <= Len(b) /\ SubSeq(b, 1, Len(a)) = a

\* the project names in the order stated: the parent directory name (if the
\* file has one), 'docker', 'services', none
StatedProjects ==
  (IF shell.parent # "" THEN <<shell.parent>> ELSE <<>>) \o <<"docker", "services", "">>

StatedShortForms ==
  [i \in 1..Len(StatedProjects) |->
     [bin |-> "docker compose", proj |-> StatedProjects[i], flag |-> "-f"]]

StatedLongForms ==
  [i \in 1..Len(StatedProjects) |->
     [bin |-> "docker compose", proj |-> StatedProjects[i], flag |-> "--file"]]

StatedLegacy == <<[bin |-> "docker-compose", proj |-> "", flag |-> "-f"]>>

\* the commands run so far follow the stated order; short forms are left out
\* only after the k-th command found no docker binary
RanInStatedOrder ==
  \E k \in 1..Len(StatedProjects) :
    /\ IsPrefix(shell.ran, SubSeq(StatedShortForms, 1, k) \o StatedLongForms \o StatedLegacy)
    /\ (k < Len(StatedProjects) /\ Len(shell.ran) > k) => shell.out = <<"notfound", k>>

\* C23: run_compose runs its commands in the stated order (short form with
\* the parent directory name, 'docker', 'services', no project; the long
\* forms likewise; the legacy binary); the first command that exits with 0
\* ends the call with (true, that command's output), and no command runs
\* after it.
C23_FixedOrderFirstSuccess ==
  /\ [](InRunCompose =>
          /\ RanInStatedOrder
          /\ shell.last[1] = "exit0"
               => /\ shell.pc = "done"
                  /\ shell.result = Some([ok |-> TRUE, out |-> shell.last])
                  /\ shell.last[2] = Len(shell.ran))
  /\ [][(InRunCompose /\ shell.last[1] = "exit0") => shell'.ran = shell.ran]_all_vars

\* the legacy binary succeeded after the eight docker compose forms failed
C23_Witness ==
  /\ InRunCompose
  /\ shell.parent # ""
  /\ shell.ran = StatedShortForms \o StatedLongForms \o StatedLegacy
  /\ shell.last = <<"exit0", 9>>
  /\ shell.result = Some([ok |-> TRUE, out |-> <<"exit0", 9>>])

\* C24: when the first command of a call finds no docker binary, the command
\* run next is the legacy docker-compose binary.
C24_MissingBinarySkipsToLegacy ==
  (InRunCompose /\ shell.out = <<"notfound", 1>> /\ Len(shell.ran) >= 2)
    => shell.ran[2].bin = "docker-compose"

\* the SDK cleanup has been reached (tried, or carried out)
CleanupReached == shell.pc = "sdk" \/ shell.cleanup # Null

\* C25: the SDK cleanup is reached only for action down and only when the
\* last command of the chain, the legacy binary, has run and failed like all
\* commands before it; for action up nothing is stopped or removed and a
\* call whose commands all failed returns failure.
C25_CleanupOnlyForDown ==
  InRunCompose =>
    /\ CleanupReached
         => /\ shell.action = "down"
            /\ shell.ran # <<>>
            /\ shell.ran[Len(shell.ran)] = StatedLegacy[1]
            /\ shell.last[1] # "exit0"
    /\ shell.action = "up"
         => /\ ~CleanupReached
            /\ (shell.pc = "done" /\ shell.ran # <<>> /\ shell.last[1] # "exit0")
                 => (shell.result # Null /\ ~shell.result[1].ok)

\* a call for down whose commands all failed has removed containers
C25_Witness ==
  /\ InRunCompose
  /\ shell.action = "down"
  /\ shell.cleanup # Null
  /\ shell.cleanup[1].removed # {}
  /\ Len(shell.ran) = Len(shell.cands) * 2 + 1

\* C26: a call whose commands all failed and that no cleanup rescued returns
\* (false, text), text being the diagnostic summary followed by the output
\* or error text of the command that was run last in the call.
C26_FailureCarriesLastOutput ==
  (InRunCompose /\ shell.pc = "done" /\ shell.ran # <<>> /\ shell.cleanup = Null
     /\ shell.last[1] # "exit0")
    => shell.result =
         Some([ok |-> FALSE,
               out |-> <<"All compose invocation attempts failed. Last output: ", shell.last>>])

\* the containers the cleanup is to take: those whose compose-service label
\* names a service the compose file declares, or every labelled container
\* when the file's services could not be parsed
ToBeCleaned(cl) ==
  {c \in cl.listed :
     /\ c.svc # ""
     /\ cl.file.kind = "parsed" => c.svc \in cl.file.names}

\* C27: the cleanup stops and removes only containers whose compose-service
\* label names a declared service (every labelled one when the services
\* cannot be parsed), and all of them when no SDK call fails; it stops only
\* running containers; the names it reports are those it removed.
C27_CleanupTakesDeclaredServices ==
  (InRunCompose /\ shell.cleanup # Null) =>
    LET cl == shell.cleanup[1]
        want == {c.name : c \in ToBeCleaned(cl)}
    IN /\ cl.stopped \cup cl.removed \subseteq want
       /\ \A c \in cl.listed : c.name \in cl.stopped => c.status = "running"
       /\ (cl.stop_fails = {} /\ cl.remove_fails = {})
            => /\ cl.removed = want
               /\ cl.stopped = {c.name : c \in {x \in ToBeCleaned(cl) : x.status = "running"}}
       /\ cl.reported = cl.removed
       /\ shell.result[1].out[2] = cl.removed

\* a call of get_status of src/docker_utils.py is under way or over
InGetStatus == shell.called /\ shell.fn = "get_status"

\* C28: counting every command that runs into its timeout at its full
\* timeout, a call of run_compose blocks for at most 180 seconds and a call
\* of get_status for at most 30 seconds on its CLI tier and 3 seconds in the
\* probe.
C28_OneTimeoutPerCall ==
  /\ InRunCompose => shell.blocked <= ComposeTimeout
  /\ InGetStatus => (shell.blocked <= StatusTimeout /\ shell.probe_blocked <= ProbeTimeout)

\* process p loses its mirror in this step: it is restarted
LosesMirror(p) == JOBS[p] # <<>> /\ JOBS'[p] = <<>>

\* no process holds job id in its mirror: the process that ran it is gone
Orphaned(id) == \A p \in Procs : id \notin DOMAIN JOBS[p]

\* C29: a restart empties the restarted process's JOBS and queue but leaves
\* every row of the jobs table as committed; a status query after the
\* restart, served by any process, returns each row with these values, and
\* the row of a job whose process is gone keeps them from then on.
C29_RowsSurviveRestart ==
  /\ [][\A p \in Procs :
          LosesMirror(p)
            => /\ queue'[p] = <<>>
               /\ \A id \in DOMAIN db : \A q \in Procs :
                    /\ api_job_reply(q, id, TRUE)'.code = 200
                    /\ api_job_reply(q, id, TRUE)'.job = Some(db[id])]_vars
  /\ [][\A id \in DOMAIN db :
          Orphaned(id) => (id \in DOMAIN db' /\ db'[id] = db[id])]_vars

\* a job's row is still 'running' after its process was restarted, and the
\* query of either process returns it
C29_Witness ==
  \E id \in DOMAIN db :
    /\ Orphaned(id)
    /\ db[id].status = "running"
    /\ \A q \in Procs : api_job_reply(q, id, TRUE).job = Some(db[id])

\* C30: with several request threads, a call that returns the cached
\* snapshot without a request of its own returns a non-empty mapping, on a
\* timestamp of a successful fetch less than the TTL before its own start;
\* a call that did not return the cached snapshot made a fetch attempt.
C30_ServedOnlyFreshAndNonEmpty ==
  \A t \in Threads :
    fetch[t].pc = "returned" =>
      /\ fetch[t].how = "cached"
           => /\ ~fetch[t].requested
              /\ fetch[t].ts_seen > 0
              /\ fetch[t].now - fetch[t].ts_seen < KUMA_CACHE_TTL
              /\ fetch[t].ret # <<>>
      /\ fetch[t].how \in {"fetched", "failed"} => fetch[t].requested

\* C31: with the pool's threads running, every job submitted through
\* submit_job of src/jobs.py ends done or failed, in the mirror and, its
\* writes committing, in the durable row.
C31_ModuleJobEnds ==
  \A p \in PoolProcs : \A id \in 1..ModuleJobs :
    (id \in DOMAIN JOBS[p])
      ~> (/\ id \in DOMAIN JOBS[p] /\ JOBS[p][id].status \in Terminal
          /\ id \in DOMAIN db /\ db[id].status \in Terminal)

\* ---- C32
\* C32: jobs for one service are not serialized. A start or stop request for
\* a registered service is answered ok whatever jobs are open, its submission
\* adds a new pending job with its own row and queue entry and leaves every
\* other job as it was, and a queued closure can be started whenever a pool
\* thread is free, whatever the tasks that are executing.
C32_NotSerialized ==
  /\ [](\A p \in PoolProcs :
          /\ start_stop_reply(Some("wiki"), TRUE).code = 200
          /\ (queue[p] # <<>> /\ Cardinality(DOMAIN tasks[p]) < max_workers)
               => ENABLED run_begin(p))
  /\ [][ \A p \in PoolProcs, action \in {"start", "stop"}, saved \in RouteEnv.writes :
           start_stop(p, RouteJobs, action, Some("wiki"), TRUE, saved)
             => /\ nextId \notin DOMAIN JOBS[p] \cup DOMAIN db
                /\ DOMAIN JOBS'[p] = DOMAIN JOBS[p] \cup {nextId}
                /\ JOBS'[p][nextId] = new_job(nextId, action, Some("wiki"))
                /\ \A id \in DOMAIN JOBS[p] : JOBS'[p][id] = JOBS[p][id]
                /\ DOMAIN db' = DOMAIN db \cup {nextId}
                /\ \A id \in DOMAIN db : db'[id] = db[id]
                /\ Len(queue'[p]) = Len(queue[p]) + 1
                /\ queue'[p][Len(queue'[p])].job_id = nextId
                /\ tasks' = tasks ]_vars

\* a start job and a stop job of the same service, both running
C32_Witness ==
  \E p \in PoolProcs : \E a, b \in Running(p) :
    /\ JOBS[p][a].name = Some("wiki") /\ JOBS[p][b].name = Some("wiki")
    /\ JOBS[p][a].action = "start" /\ JOBS[p][b].action = "stop"
    /\ {a, b} \subseteq DOMAIN tasks[p]
    /\ tasks[p][a].compose_path = tasks[p][b].compose_path
    /\ db[a].status = "running" /\ db[b].status = "running"

\* ---- C33
\* C33: in the process that executes a job, the durable row never shows a
\* later status than the mirror (pending < running < done or failed), and a
\* terminal row shows the mirror's own terminal status; every step that
\* moves the row's status moves it to a status the mirror already has; and
\* once the execution task of a job is over with none of its durable writes
\* having failed, the row and the mirror show the same status.
WritesFailed(id) == {e \in log : e[2] = id}

TaskOver(p, id) ==
  /\ id \in DOMAIN JOBS[p]
  /\ id \notin QueuedIds(queue[p])
  /\ id \notin DOMAIN tasks[p]

C33_RowNeverAhead ==
  /\ [](\A p \in Procs : \A id \in DOMAIN JOBS[p] \cap DOMAIN db :
          /\ Rank(db[id].status) <= Rank(JOBS[p][id].status)
          /\ db[id].status \in Terminal => db[id].status = JOBS[p][id].status
          /\ (TaskOver(p, id) /\ WritesFailed(id) = {})
               => db[id].status = JOBS[p][id].status)
  /\ [][ \A p \in Procs : \A id \in DOMAIN JOBS[p] \cap DOMAIN db :
           (id \in DOMAIN db' /\ db'[id].status # db[id].status)
             => /\ id \in DOMAIN JOBS'[p]
                /\ JOBS'[p] = JOBS[p]
                /\ db'[id].status = JOBS[p][id].status ]_vars

\* src/app.py's process holds a done job whose task is over and whose
\* writes all committed, and src/jobs.py's process a job whose row is
\* behind the mirror
C33_Witness ==
  /\ \E id \in DOMAIN JOBS["w1"] \cap DOMAIN db :
       /\ TaskOver("w1", id) /\ WritesFailed(id) = {}
       /\ db[id].status = "done" /\ JOBS["w1"][id].status = "done"
  /\ \E id \in DOMAIN JOBS["w2"] \cap DOMAIN db :
       Rank(db[id].status) < Rank(JOBS["w2"][id].status)

\* ---- C34
\* C34: lines of monitors with different monitor_id labels are never merged
\* into one entry: every monitor_id label of the text has an entry of its
\* own, and an entry's status_code is the value of a monitor_status line that
\* carries the entry's monitor_id, also for monitors whose URLs share scheme
\* and host. (An entry is that of a labelled monitor when a line with its
\* monitor_id, name and URL is in the text.)
LabelledLines(text) ==
  {k \in 1..Len(text) : text[k].matches /\ get(text[k].labels, "monitor_id") # <<>>}

C34_MonitorsKeptApart ==
  metrics.called =>
    /\ \A k \in LabelledLines(metrics.text) :
         \E i \in 1..Len(metrics.monitors) :
           metrics.monitors[i].entry.monitor_id = get(metrics.text[k].labels, "monitor_id")
    /\ \A i \in 1..Len(metrics.monitors) :
         LET entry == metrics.monitors[i].entry IN
         ("status_code" \in DOMAIN entry
            /\ \E k \in LabelledLines(metrics.text) :
                 /\ get(metrics.text[k].labels, "monitor_id") = entry.monitor_id
                 /\ get(metrics.text[k].labels, "monitor_name") = entry.name
                 /\ get(metrics.text[k].labels, "monitor_url") = entry.url)
           => \E k \in LabelledLines(metrics.text) :
                /\ metrics.text[k].metric = "monitor_status"
                /\ get(metrics.text[k].labels, "monitor_id") = entry.monitor_id
                /\ metrics.text[k].value = entry.status_code

\* ---- C35
\* C35: for every service and monitor snapshot, the monitor api_services
\* matches to the service for its uptime summary is the entry that
\* find_kuma_monitor_for_service selects for it, also when the service URL
\* carries a path, a query or a trailing slash.
C35_SameMonitor ==
  lookup.called => lookup.attached = lookup.result

\* ---- C36
\* C36: for a compose file that does not exist, run_compose of
\* src/docker_utils.py and run_compose of src/app.py return (False, 'compose
\* file not found') for up and for down, having run no command and no SDK
\* cleanup; a job for a service whose compose file is missing is never done,
\* is failed with that text as its result wherever it is terminal, in the
\* mirror and in the row, and, the pool's threads running, ends failed.
FileNotFound == "compose file not found"

C36_MissingFileFails ==
  /\ [](/\ \A action \in {"up", "down"}, how \in Exits :
             run_compose(FALSE, action, how) = [ok |-> FALSE, out |-> FileNotFound]
        /\ InRunCompose
             => /\ shell.pc = "done"
                /\ shell.ran = <<>> /\ shell.blocked = 0 /\ shell.cleanup = Null
                /\ shell.result # Null
                /\ ~shell.result[1].ok /\ shell.result[1].out[1] = FileNotFound
        /\ \A p \in PoolProcs : \A id \in DOMAIN JOBS[p] :
             /\ JOBS[p][id].status # "done"
             /\ JOBS[p][id].status = "failed" <=> JOBS[p][id].result = Some(FileNotFound)
        /\ \A id \in DOMAIN db :
             /\ db[id].status # "done"
             /\ db[id].status = "failed" <=> db[id].result = Some(FileNotFound))
  /\ \A p \in PoolProcs : \A id \in 1..MissingJobs :
       (id \in DOMAIN JOBS[p])
         ~> (/\ id \in DOMAIN JOBS[p] /\ JOBS[p][id].status = "failed"
             /\ JOBS[p][id].result = Some(FileNotFound)
             /\ JOBS[p][id].finished_at # Null)

\* a start job and a stop job both failed for the missing file, in the
\* mirror and in the table, and a call of docker_utils.run_compose for down
\* returned
C36_Witness ==
  /\ InRunCompose /\ shell.action = "down" /\ shell.result # Null
  /\ \E p \in PoolProcs : \E a, b \in DOMAIN JOBS[p] \cap DOMAIN db :
       /\ JOBS[p][a].action = "start" /\ JOBS[p][b].action = "stop"
       /\ \A id \in {a, b} :
            /\ JOBS[p][id].status = "failed" /\ JOBS[p][id].result = Some(FileNotFound)
            /\ db[id].status = "failed" /\ db[id].result = Some(FileNotFound)

====
